---- MODULE Spec2Model ----
(***************************************************************************)
(* Frontend call-site analyzer of src/src/analyzer.js (analyzeFrontend)    *)
(* as a state machine.  JavaScript strings are sequences of one-character  *)
(* strings, so that indexOf, slice, split and the regular-expression       *)
(* replacements are computed character by character as the code does.      *)
(* A nullable value is a sequence of length 0 (null / undefined) or 1.     *)
(***************************************************************************)
EXTENDS Integers, Sequences, FiniteSets, TLC

\* Largest number of call expressions one run of the analyzer visits.
MaxCalls == 3

\* Largest number of file events the watcher emits in one run of watch.
MaxEvents == 3

\* Largest number of calls of renderAndWrite on one output path.
MaxRenders == 2

\* Largest number of invocations of upsertApplicationProperties on one file.
MaxUpserts == 3

----------------------------------------------------------------------------
(* Characters and the string primitives of JavaScript the code relies on.  *)

LowerLetters == <<"a", "b", "c", "d", "e", "f", "g", "h", "i", "j", "k", "l", "m", "n", "o", "p", "q", "r", "s", "t", "u", "v", "w", "x", "y", "z">>

UpperLetters == <<"A", "B", "C", "D", "E", "F", "G", "H", "I", "J", "K", "L", "M", "N", "O", "P", "Q", "R", "S", "T", "U", "V", "W", "X", "Y", "Z">>

DigitChars == {"0", "1", "2", "3", "4", "5", "6", "7", "8", "9"}

Range(s) == {s[i] : i \in 1..Len(s)}

\* The regular-expression class [a-zA-Z0-9]
AlnumChars == Range(LowerLetters) \cup Range(UpperLetters) \cup DigitChars

IsAlnum(c) == c \in AlnumChars

\* The regular-expression class \w, the same set as [a-zA-Z0-9_]
WordChars == AlnumChars \cup {"_"}

IsWordChar(c) == c \in WordChars

Null == <<>>

Some(x) == <<x>>

IsNull(v) == v = <<>>

\* String.prototype.toUpperCase, character by character
toUpperCase(s) ==
    [i \in 1..Len(s) |->
        IF \E k \in 1..26 : LowerLetters[k] = s[i]
        THEN UpperLetters[CHOOSE k \in 1..26 : LowerLetters[k] = s[i]]
        ELSE s[i]]

\* String.prototype.toLowerCase, character by character
toLowerCase(s) ==
    [i \in 1..Len(s) |->
        IF \E k \in 1..26 : UpperLetters[k] = s[i]
        THEN LowerLetters[CHOOSE k \in 1..26 : UpperLetters[k] = s[i]]
        ELSE s[i]]

\* pat occurs in s at the 0-based offset i
OccursAt(s, pat, i) ==
    /\ i + Len(pat) <= Len(s)
    /\ SubSeq(s, i + 1, i + Len(pat)) = pat

\* String.prototype.indexOf: the first 0-based offset of pat in s, or -1
indexOf(s, pat) ==
    IF \E i \in 0..Len(s) : OccursAt(s, pat, i)
    THEN CHOOSE i \in 0..Len(s) :
            /\ OccursAt(s, pat, i)
            /\ \A j \in 0..(i - 1) : ~OccursAt(s, pat, j)
    ELSE -1

\* String.prototype.slice(idx) for 0 <= idx
slice(s, idx) == SubSeq(s, idx + 1, Len(s))

\* String.prototype.split on a one-character separator
RECURSIVE split(_, _)
split(s, sep) ==
    LET i == indexOf(s, <<sep>>)
    IN  IF i = -1 THEN <<s>>
        ELSE <<SubSeq(s, 1, i)>> \o split(slice(s, i + 1), sep)

\* Array.prototype.filter(Boolean) on an array of strings: drops ''
filterBoolean(arr) == SelectSeq(arr, LAMBDA p : p # <<>>)

\* Array.from(new Set(arr)): the distinct elements, first appearance first
RECURSIVE ArrayFromSet(_)
ArrayFromSet(arr) ==
    IF arr = <<>> THEN <<>>
    ELSE LET r == ArrayFromSet(SubSeq(arr, 1, Len(arr) - 1))
             x == arr[Len(arr)]
         IN  IF \E i \in 1..Len(r) : r[i] = x THEN r ELSE Append(r, x)

\* Length of the maximal run of characters of the class cls (a set) starting
\* at the 1-based position i of s (a greedy cls+ of a regular expression)
RunLen(s, i, cls) ==
    CHOOSE n \in 0..(Len(s) + 1) :
        /\ i + n - 1 <= Len(s) \/ n = 0
        /\ \A k \in 0..(n - 1) : s[i + k] \in cls
        /\ (i + n > Len(s) \/ s[i + n] \notin cls)

----------------------------------------------------------------------------
(* Utils, src/src/analyzer.js lines 14-87                                  *)

\* String(p || '').replace(/\\/g, '/')
normalizeSlashes(p) ==
    [i \in 1..Len(p) |-> IF p[i] = "\\" THEN "/" ELSE p[i]]

\* .replace(/[-_]+(\w)/g, (_, c) => c.toUpperCase()), scanning from position i
DashUnderscore == {"-", "_"}

RECURSIVE CamelizeFrom(_, _)
CamelizeFrom(s, i) ==
    IF i > Len(s) THEN <<>>
    ELSE LET n == RunLen(s, i, DashUnderscore)
             \* lengths k of [-_]+ after which a \w character follows
             K == {k \in 1..n : i + k <= Len(s) /\ IsWordChar(s[i + k])}
         IN  IF K # {}
             THEN LET k == CHOOSE x \in K : \A y \in K : y <= x
                  IN  toUpperCase(<<s[i + k]>>) \o CamelizeFrom(s, i + k + 1)
             ELSE <<s[i]>> \o CamelizeFrom(s, i + 1)

\* toTitleCase of a nullable string
toTitleCase(str) ==
    IF IsNull(str) \/ str = Some(<<>>) THEN <<"D", "e", "f", "a", "u", "l", "t">>
    ELSE LET s1 == CamelizeFrom(str[1], 1)
             s2 == IF s1 # <<>> /\ IsWordChar(s1[1])
                   THEN toUpperCase(<<s1[1]>>) \o Tail(s1)
                   ELSE s1
         IN  SelectSeq(s2, IsAlnum)

\* .replace(/\{(\w+)\}/g, ':$1'), scanning from the 1-based position i
RECURSIVE ReplacePlaceholdersFrom(_, _)
ReplacePlaceholdersFrom(s, i) ==
    IF i > Len(s) THEN <<>>
    ELSE LET n == RunLen(s, i + 1, WordChars)
         IN  IF /\ s[i] = "{"
                /\ n >= 1
                /\ i + n + 1 <= Len(s)
                /\ s[i + n + 1] = "}"
             THEN <<":">> \o SubSeq(s, i + 1, i + n)
                         \o ReplacePlaceholdersFrom(s, i + n + 2)
             ELSE <<s[i]>> \o ReplacePlaceholdersFrom(s, i + 1)

normalizeRouteForBackend(urlValue) == ReplacePlaceholdersFrom(urlValue, 1)

\* Variant of extractApiPath without the idx === -1 return: every non-empty
\* URL is admitted
extractApiPathUnfiltered(urlValue) ==
    IF IsNull(urlValue) \/ urlValue = Some(<<>>) THEN Null
    ELSE LET idx == indexOf(urlValue[1], <<"/", "a", "p", "i", "/">>)
         IN  IF idx = -1 THEN urlValue ELSE Some(slice(urlValue[1], idx))

\* a variant of extractApiPath that keeps what precedes /api/
extractApiPathKeepsPrefix(urlValue) ==
    IF IsNull(urlValue) \/ urlValue = Some(<<>>) THEN Null
    ELSE LET idx == indexOf(urlValue[1], <<"/", "a", "p", "i", "/">>)
         IN  IF idx = -1 THEN Null ELSE urlValue

\* extractApiPath of a nullable string: a nullable string
extractApiPath(urlValue) ==
    IF IsNull(urlValue) \/ urlValue = Some(<<>>) THEN Null
    ELSE LET idx == indexOf(urlValue[1], <<"/", "a", "p", "i", "/">>)
         IN  IF idx = -1 THEN Null ELSE Some(slice(urlValue[1], idx))

\* the exec loop over /[:{]([a-zA-Z0-9_]+)[}]/g, from the 1-based position i
RECURSIVE PathParamMatchesFrom(_, _)
PathParamMatchesFrom(route, i) ==
    IF i > Len(route) THEN <<>>
    ELSE LET n == RunLen(route, i + 1, WordChars)
         IN  IF /\ route[i] \in {":", "{"}
                /\ n >= 1
                /\ i + n + 1 <= Len(route)
                /\ route[i + n + 1] = "}"
             THEN <<SubSeq(route, i + 1, i + n)>>
                      \o PathParamMatchesFrom(route, i + n + 2)
             ELSE PathParamMatchesFrom(route, i + 1)

extractPathParams(route) == ArrayFromSet(PathParamMatchesFrom(route, 1))

extractQueryParamsFromUrl(urlValue) ==
    LET qIndex == indexOf(urlValue, <<"?">>)
    IN  IF qIndex = -1 THEN <<>>
        ELSE LET qs == slice(urlValue, qIndex + 1)
                 pairs == split(qs, "&")
                 keys == [i \in 1..Len(pairs) |-> split(pairs[i], "=")[1]]
             IN  filterBoolean(keys)

\* /^v\d+$/i
IsVersionSegment(seg) ==
    /\ Len(seg) >= 2
    /\ seg[1] \in {"v", "V"}
    /\ \A i \in 2..Len(seg) : seg[i] \in DigitChars

\* Array.prototype.indexOf: 0-based position of x in arr, or -1
arrayIndexOf(arr, x) ==
    IF \E i \in 1..Len(arr) : arr[i] = x
    THEN (CHOOSE i \in 1..Len(arr) :
             arr[i] = x /\ \A j \in 1..(i - 1) : arr[j] # x) - 1
    ELSE -1

\* arr[idx] || null for the 0-based idx (the elements are non-empty strings)
ElementOrNull(arr, idx) ==
    IF idx >= 0 /\ idx + 1 <= Len(arr) THEN Some(arr[idx + 1]) ELSE Null

deriveControllerNameFromUrl(urlValue) ==
    LET ex == extractApiPath(Some(urlValue))
        apiPath == IF IsNull(ex) THEN urlValue ELSE ex[1]
        parts == filterBoolean(split(apiPath, "/"))
        apiIndex == arrayIndexOf(parts, <<"a", "p", "i">>)
        first == ElementOrNull(parts, apiIndex + 1)
        second == ElementOrNull(parts, apiIndex + 2)
        seg == IF apiIndex >= 0
               THEN IF ~IsNull(first) /\ IsVersionSegment(first[1])
                    THEN (IF IsNull(second) THEN first ELSE second)
                    ELSE first
               ELSE ElementOrNull(parts, 0)
    IN  toTitleCase(seg)

\* a variant that takes the first token of the route
deriveActionNameFirstToken(method, route) ==
    LET r1 == IF OccursAt(route, <<"/", "a", "p", "i", "/">>, 0)
              THEN <<"/">> \o slice(route, 5)
              ELSE route
        cleaned == [i \in 1..Len(r1) |->
                      IF r1[i] \in {"/", ":", "{", "}", "-"} THEN " " ELSE r1[i]]
        tokens == filterBoolean(split(cleaned, " "))
        first == IF tokens = <<>> THEN <<"A", "c", "t", "i", "o", "n">> ELSE tokens[1]
    IN  toLowerCase(method) \o toTitleCase(Some(first))

deriveActionName(method, route) ==
    LET r1 == IF OccursAt(route, <<"/", "a", "p", "i", "/">>, 0)
              THEN <<"/">> \o slice(route, 5)
              ELSE route
        cleaned == [i \in 1..Len(r1) |->
                      IF r1[i] \in {"/", ":", "{", "}", "-"} THEN " " ELSE r1[i]]
        \* trim().split(/\s+/).filter(Boolean): the maximal runs of non-blanks
        tokens == filterBoolean(split(cleaned, " "))
        last == IF tokens = <<>> THEN <<"A", "c", "t", "i", "o", "n">> ELSE tokens[Len(tokens)]
    IN  toLowerCase(method) \o toTitleCase(Some(last))

----------------------------------------------------------------------------
(* Syntax-tree nodes as @babel/parser produces them: records with a type   *)
(* field and the fields the analyzer reads.                                *)

StringLiteral(value) == [type |-> "StringLiteral", value |-> value]

NumericLiteral == [type |-> "NumericLiteral"]

BooleanLiteral == [type |-> "BooleanLiteral"]

NullLiteral == [type |-> "NullLiteral"]

ArrayExpression == [type |-> "ArrayExpression"]

Identifier(name) == [type |-> "Identifier", name |-> name]

TemplateLiteral(quasis, expressions) ==
    [type |-> "TemplateLiteral", quasis |-> quasis, expressions |-> expressions]

MemberExpression(object, property) ==
    [type |-> "MemberExpression", object |-> object, property |-> property]

ObjectProperty(key, value) ==
    [type |-> "ObjectProperty", key |-> key, value |-> value]

SpreadElement(argument) == [type |-> "SpreadElement", argument |-> argument]

ObjectExpression(properties) ==
    [type |-> "ObjectExpression", properties |-> properties]

\* A call expression together with the bindings visible from its scope,
\* nearest scope first (what callPath.scope.getBinding consults).
CallExpression(callee, arguments, scope) ==
    [type |-> "CallExpression", callee |-> callee, arguments |-> arguments,
     scope |-> scope]

\* A binding of the scope chain: the declared name and the declaring node
VariableDeclarator(name, init) ==
    [name |-> name, node |-> [type |-> "VariableDeclarator", init |-> init]]

FunctionParam(name) == [name |-> name, node |-> [type |-> "Identifier"]]

\* node.arguments[i] for the 0-based i: nullable
Argument(node, i) ==
    IF i + 1 <= Len(node.arguments) THEN Some(node.arguments[i + 1]) ELSE Null

HTTP_METHODS == {<<"g", "e", "t">>, <<"p", "o", "s", "t">>, <<"p", "u", "t">>, <<"p", "a", "t", "c", "h">>, <<"d", "e", "l", "e", "t", "e">>}

----------------------------------------------------------------------------
(* URL extraction, src/src/analyzer.js lines 92-113                        *)

DecimalDigits == <<"0", "1", "2", "3", "4", "5", "6", "7", "8", "9">>

\* the decimal text of a natural number, as string interpolation prints it
RECURSIVE NumberToString(_)
NumberToString(n) ==
    IF n < 10 THEN <<DecimalDigits[n + 1]>>
    ELSE NumberToString(n \div 10) \o <<DecimalDigits[(n % 10) + 1]>>

\* a variant that numbers the placeholders with the source's 0-based index
RECURSIVE TemplateFromZeroBased(_, _)
TemplateFromZeroBased(urlNode, i) ==
    IF i > Len(urlNode.quasis) THEN <<>>
    ELSE urlNode.quasis[i]
         \o (IF i <= Len(urlNode.expressions)
             THEN IF urlNode.expressions[i].type = "Identifier"
                  THEN <<"{">> \o urlNode.expressions[i].name \o <<"}">>
                  ELSE <<"{", "p", "a", "r", "a", "m">> \o NumberToString(i - 1) \o <<"}">>
             ELSE <<>>)
         \o TemplateFromZeroBased(urlNode, i + 1)

\* the loop of getUrlValue over the quasis, from the 1-based position i;
\* the source's 0-based i is i - 1 here, so its param${i + 1} is param i
RECURSIVE TemplateFrom(_, _)
TemplateFrom(urlNode, i) ==
    IF i > Len(urlNode.quasis) THEN <<>>
    ELSE urlNode.quasis[i]
         \o (IF i <= Len(urlNode.expressions)
             THEN IF urlNode.expressions[i].type = "Identifier"
                  THEN <<"{">> \o urlNode.expressions[i].name \o <<"}">>
                  ELSE <<"{", "p", "a", "r", "a", "m">> \o NumberToString(i) \o <<"}">>
             ELSE <<>>)
         \o TemplateFrom(urlNode, i + 1)

\* getUrlValue of a nullable node: a nullable string
getUrlValue(urlNode) ==
    IF IsNull(urlNode) THEN Null
    ELSE IF urlNode[1].type = "StringLiteral" THEN Some(urlNode[1].value)
    ELSE IF urlNode[1].type = "TemplateLiteral" THEN Some(TemplateFrom(urlNode[1], 1))
    ELSE Null

----------------------------------------------------------------------------
(* axios-like detection, src/src/analyzer.js lines 118-129                 *)

\* Variant of detectAxiosLikeMethod that compares the property name with
\* HTTP_METHODS as written, without lower-casing it
detectAxiosLikeMethodCaseSensitive(node) ==
    IF node.callee.type # "MemberExpression" THEN Null
    ELSE IF node.callee.property.type # "Identifier" THEN Null
    ELSE LET name == node.callee.property.name
         IN  IF name \notin HTTP_METHODS THEN Null ELSE Some(toUpperCase(name))

\* nullable upper-cased verb
detectAxiosLikeMethod(node) ==
    IF node.callee.type # "MemberExpression" THEN Null
    ELSE IF node.callee.property.type # "Identifier" THEN Null
    ELSE LET name == toLowerCase(node.callee.property.name)
         IN  IF name \notin HTTP_METHODS THEN Null ELSE Some(toUpperCase(name))

----------------------------------------------------------------------------
(* Request body schema, src/src/analyzer.js lines 134-198                  *)

\* a variant that names the kind of every value it is given
inferTypeFromNodeByKind(node) ==
    CASE node.type = "StringLiteral" -> <<"S", "t", "r", "i", "n", "g">>
      [] node.type = "NumericLiteral" -> <<"N", "u", "m", "b", "e", "r">>
      [] node.type = "BooleanLiteral" -> <<"B", "o", "o", "l", "e", "a", "n">>
      [] node.type = "NullLiteral" -> <<"N", "u", "l", "l">>
      [] node.type = "ArrayExpression" -> <<"A", "r", "r", "a", "y">>
      [] OTHER -> <<"O", "b", "j", "e", "c", "t">>

inferTypeFromNode(node) ==
    CASE node.type = "StringLiteral" -> <<"S", "t", "r", "i", "n", "g">>
      [] node.type = "NumericLiteral" -> <<"N", "u", "m", "b", "e", "r">>
      [] node.type = "BooleanLiteral" -> <<"B", "o", "o", "l", "e", "a", "n">>
      [] node.type = "NullLiteral" -> <<"S", "t", "r", "i", "n", "g">>
      [] OTHER -> <<"S", "t", "r", "i", "n", "g">>

\* schemaFields[key] = type on an object kept as a sequence of fields in
\* property-creation order: an existing key keeps its place
SetField(fields, key, t) ==
    IF \E i \in 1..Len(fields) : fields[i].name = key
    THEN [i \in 1..Len(fields) |->
            IF fields[i].name = key THEN [name |-> key, type |-> t] ELSE fields[i]]
    ELSE Append(fields, [name |-> key, type |-> t])

\* the key of a property: nullable string
PropertyKey(prop) ==
    IF prop.key.type = "Identifier" THEN Some(prop.key.name)
    ELSE IF prop.key.type = "StringLiteral" THEN Some(prop.key.value)
    ELSE Null

RECURSIVE SchemaOfProperties(_, _)
SchemaOfProperties(properties, n) ==
    IF n = 0 THEN <<>>
    ELSE LET rest == SchemaOfProperties(properties, n - 1)
             prop == properties[n]
         IN  IF prop.type # "ObjectProperty" THEN rest
             ELSE LET key == PropertyKey(prop)
                  IN  IF IsNull(key) \/ key = Some(<<>>) THEN rest
                      ELSE SetField(rest, key[1], inferTypeFromNode(prop.value))

\* extractObjectSchema of a node: nullable sequence of fields
extractObjectSchema(objExpr) ==
    IF objExpr.type # "ObjectExpression" THEN Null
    ELSE Some(SchemaOfProperties(objExpr.properties, Len(objExpr.properties)))

\* a variant that takes the outermost binding of the name
resolveIdentifierOutermost(callPath, identifierName) ==
    LET scope == callPath.scope
        hits == {i \in 1..Len(scope) : scope[i].name = identifierName}
    IN  IF hits = {} THEN Null
        ELSE LET binding == scope[CHOOSE i \in hits : \A j \in hits : i >= j]
             IN  IF binding.node.type = "VariableDeclarator"
                 THEN binding.node.init
                 ELSE Null

\* resolveIdentifierToInit: the initializer of the nearest binding of the name
resolveIdentifierToInit(callPath, identifierName) ==
    LET scope == callPath.scope
        hits == {i \in 1..Len(scope) : scope[i].name = identifierName}
    IN  IF hits = {} THEN Null
        ELSE LET binding == scope[CHOOSE i \in hits : \A j \in hits : i <= j]
             IN  IF binding.node.type = "VariableDeclarator"
                 THEN binding.node.init
                 ELSE Null

isJSONStringifyCall(node) ==
    /\ node.type = "CallExpression"
    /\ node.callee.type = "MemberExpression"
    /\ node.callee.object.type = "Identifier"
    /\ node.callee.object.name = <<"J", "S", "O", "N">>
    /\ node.callee.property.type = "Identifier"
    /\ node.callee.property.name = <<"s", "t", "r", "i", "n", "g", "i", "f", "y">>

----------------------------------------------------------------------------
(* The CallExpression visitor of analyzeFrontend, lines 309-402            *)

GET == <<"G", "E", "T">>

MutatingMethods == {<<"P", "O", "S", "T">>, <<"P", "U", "T">>, <<"P", "A", "T", "C", "H">>}

isFetch(node) ==
    node.callee.type = "Identifier" /\ node.callee.name = <<"f", "e", "t", "c", "h">>

\* optionsNode.properties.find(p => p.type === 'ObjectProperty' &&
\*   p.key.type === 'Identifier' && p.key.name === name): nullable property
FindProperty(optionsNode, name) ==
    LET props == optionsNode.properties
        hits == {i \in 1..Len(props) :
                    /\ props[i].type = "ObjectProperty"
                    /\ props[i].key.type = "Identifier"
                    /\ props[i].key.name = name}
    IN  IF hits = {} THEN Null
        ELSE Some(props[CHOOSE i \in hits : \A j \in hits : i <= j])

\* a variant that follows an initializer that is itself an identifier
PayloadSchemaTwoHops(callPath, payload, current) ==
    IF IsNull(payload) THEN current
    ELSE IF payload[1].type = "ObjectExpression" THEN extractObjectSchema(payload[1])
    ELSE IF payload[1].type = "Identifier"
         THEN LET init == resolveIdentifierToInit(callPath, payload[1].name)
                  next == IF ~IsNull(init) /\ init[1].type = "Identifier"
                          THEN resolveIdentifierToInit(callPath, init[1].name)
                          ELSE init
              IN  IF ~IsNull(next) /\ next[1].type = "ObjectExpression"
                  THEN extractObjectSchema(next[1])
                  ELSE current
    ELSE current

\* lines 351-356 and 370-375: the schema of a nullable payload expression,
\* or the current value of schemaFields when nothing is extracted
PayloadSchema(callPath, payload, current) ==
    IF IsNull(payload) THEN current
    ELSE IF payload[1].type = "ObjectExpression" THEN extractObjectSchema(payload[1])
    ELSE IF payload[1].type = "Identifier"
         THEN LET init == resolveIdentifierToInit(callPath, payload[1].name)
              IN  IF ~IsNull(init) /\ init[1].type = "ObjectExpression"
                  THEN extractObjectSchema(init[1])
                  ELSE current
    ELSE current

\* Variant of FetchMethod that takes the literal as written, not upper-cased
FetchMethodAsWritten(node) ==
    LET optionsNode == Argument(node, 1)
    IN  IF ~IsNull(optionsNode) /\ optionsNode[1].type = "ObjectExpression"
        THEN LET methodProp == FindProperty(optionsNode[1], <<"m", "e", "t", "h", "o", "d">>)
             IN  IF ~IsNull(methodProp) /\ methodProp[1].value.type = "StringLiteral"
                 THEN methodProp[1].value.value
                 ELSE GET
        ELSE GET

\* lines 326-335: the method a fetch call is given
FetchMethod(node) ==
    LET optionsNode == Argument(node, 1)
    IN  IF ~IsNull(optionsNode) /\ optionsNode[1].type = "ObjectExpression"
        THEN LET methodProp == FindProperty(optionsNode[1], <<"m", "e", "t", "h", "o", "d">>)
             IN  IF ~IsNull(methodProp) /\ methodProp[1].value.type = "StringLiteral"
                 THEN toUpperCase(methodProp[1].value.value)
                 ELSE GET
        ELSE GET

\* lines 337-359: the schema a fetch call is given
FetchSchema(node, method) ==
    LET optionsNode == Argument(node, 1)
    IN  IF /\ ~IsNull(optionsNode)
           /\ optionsNode[1].type = "ObjectExpression"
           /\ method \in MutatingMethods
        THEN LET bodyProp == FindProperty(optionsNode[1], <<"b", "o", "d", "y">>)
             IN  IF ~IsNull(bodyProp) /\ isJSONStringifyCall(bodyProp[1].value)
                 THEN PayloadSchema(node, Argument(bodyProp[1].value, 0), Null)
                 ELSE Null
        ELSE Null

\* lines 317-361: the locals after the fetch branch
FetchBranch(node) ==
    IF isFetch(node)
    THEN [urlValue |-> getUrlValue(Argument(node, 0)),
          method |-> FetchMethod(node),
          schemaFields |-> FetchSchema(node, FetchMethod(node))]
    ELSE [urlValue |-> Null, method |-> GET, schemaFields |-> Null]

\* a variant that extracts the schema whatever the method
AxiosBranchAnyMethod(node, locals) ==
    LET axiosMethod == detectAxiosLikeMethod(node)
    IN  IF IsNull(axiosMethod) THEN locals
        ELSE [urlValue |-> getUrlValue(Argument(node, 0)),
              method |-> axiosMethod[1],
              schemaFields |->
                  PayloadSchema(node, Argument(node, 1), locals.schemaFields)]

\* lines 364-377: the locals after the axios-like branch
AxiosBranch(node, locals) ==
    LET axiosMethod == detectAxiosLikeMethod(node)
    IN  IF IsNull(axiosMethod) THEN locals
        ELSE [urlValue |-> getUrlValue(Argument(node, 0)),
              method |-> axiosMethod[1],
              schemaFields |->
                  IF axiosMethod[1] \in MutatingMethods
                  THEN PayloadSchema(node, Argument(node, 1), locals.schemaFields)
                  ELSE locals.schemaFields]

\* line 315: if (!isFetch && !axiosMethod) return
IsRecognized(node) == isFetch(node) \/ ~IsNull(detectAxiosLikeMethod(node))

\* the locals urlValue, method and schemaFields at line 379
ExtractCall(node) == AxiosBranch(node, FetchBranch(node))

\* line 383
RouteOf(apiPath) == normalizeRouteForBackend(split(apiPath, "?")[1])

\* Variant of KeyOf that keys the map by the route alone
KeyOfRouteOnly(method, route) == route

\* line 387: `${method}:${route}`
KeyOf(method, route) == method \o <<":">> \o route

\* lines 389-400: the descriptor stored for a call site of file
BuildEndpoint(locals, apiPath, file) ==
    LET route == RouteOf(apiPath)
    IN  [path |-> apiPath,
         route |-> route,
         method |-> locals.method,
         controllerName |-> deriveControllerNameFromUrl(apiPath),
         actionName |-> deriveActionName(locals.method, route),
         pathParams |-> extractPathParams(route),
         queryParams |-> extractQueryParamsFromUrl(apiPath),
         schemaFields |-> locals.schemaFields,
         requestBody |-> IF IsNull(locals.schemaFields) THEN Null
                         ELSE Some([fields |-> locals.schemaFields[1]]),
         sourceFile |-> normalizeSlashes(file)]

\* Map.prototype.has on the map kept as its entries in insertion order
MapHas(map, key) == \E i \in 1..Len(map) : map[i].key = key

\* Variant of MapSet that puts the new entry in front
MapSetFront(map, key, value) == <<[key |-> key, value |-> value]>> \o map

\* Map.prototype.set of a key the map does not hold
MapSet(map, key, value) == Append(map, [key |-> key, value |-> value])

\* Array.from(map.values())
MapValues(map) == [i \in 1..Len(map) |-> map[i].value]

\* lines 310-400: what one call of the visitor computes for node of file:
\* whether line 315 lets it pass, the locals at line 379, apiPath of line 380
\* and, when the call site is admitted, the key and the descriptor
Visitor(node, file) ==
    LET recognized == IsRecognized(node)
        locals == IF recognized THEN ExtractCall(node)
                  ELSE [urlValue |-> Null, method |-> GET, schemaFields |-> Null]
        apiPath == IF recognized THEN extractApiPath(locals.urlValue) ELSE Null
    IN  [node |-> node,
         file |-> file,
         recognized |-> recognized,
         locals |-> locals,
         apiPath |-> apiPath,
         key |-> IF IsNull(apiPath) THEN Null
                 ELSE Some(KeyOf(locals.method, RouteOf(apiPath[1]))),
         endpoint |-> IF IsNull(apiPath) THEN Null
                      ELSE Some(BuildEndpoint(locals, apiPath[1], file))]

\* Variant of Aggregate without the has() test of line 388: Map.prototype.set
\* then overwrites the value of a key the map holds (last wins)
AggregateLastWins(map, visit) ==
    IF IsNull(visit.key) THEN map
    ELSE IF MapHas(map, visit.key[1])
         THEN [k \in 1..Len(map) |->
                 IF map[k].key = visit.key[1]
                 THEN [key |-> map[k].key, value |-> visit.endpoint[1]]
                 ELSE map[k]]
    ELSE MapSet(map, visit.key[1], visit.endpoint[1])

\* lines 381-401: the map after the visitor has computed the outcome visit
Aggregate(map, visit) ==
    IF IsNull(visit.key) THEN map
    ELSE IF MapHas(map, visit.key[1]) THEN map
    ELSE MapSet(map, visit.key[1], visit.endpoint[1])

----------------------------------------------------------------------------
(* The call expressions the analysed files may contain.                    *)

NoScope == <<>>

\* fetch('/api/users')
CsFetchUsers ==
    CallExpression(Identifier(<<"f", "e", "t", "c", "h">>), <<StringLiteral(<<"/", "a", "p", "i", "/", "u", "s", "e", "r", "s">>)>>, NoScope)

\* axios.get('/api/users?page=1&page=2&q=x')
CsAxiosGetUsersQuery ==
    CallExpression(MemberExpression(Identifier(<<"a", "x", "i", "o", "s">>), Identifier(<<"g", "e", "t">>)),
                   <<StringLiteral(<<"/", "a", "p", "i", "/", "u", "s", "e", "r", "s", "?", "p", "a", "g", "e", "=", "1", "&", "p", "a", "g", "e", "=", "2", "&", "q", "=", "x">>)>>, NoScope)

\* fetch('/assets/logo.png')
CsFetchLogo ==
    CallExpression(Identifier(<<"f", "e", "t", "c", "h">>), <<StringLiteral(<<"/", "a", "s", "s", "e", "t", "s", "/", "l", "o", "g", "o", ".", "p", "n", "g">>)>>, NoScope)

\* api.get(url)
CsGetVariableUrl ==
    CallExpression(MemberExpression(Identifier(<<"a", "p", "i">>), Identifier(<<"g", "e", "t">>)),
                   <<Identifier(<<"u", "r", "l">>)>>, NoScope)

\* http.post('http://h:5/api/users/{user-id}/{id}', { name: 'x', age: 1, ok: true, tags: [] })
CsPostLiteralBraces ==
    CallExpression(MemberExpression(Identifier(<<"h", "t", "t", "p">>), Identifier(<<"p", "o", "s", "t">>)),
                   <<StringLiteral(<<"h", "t", "t", "p", ":", "/", "/", "h", ":", "5", "/", "a", "p", "i", "/", "u", "s", "e", "r", "s", "/", "{", "u", "s", "e", "r", "-", "i", "d", "}", "/", "{", "i", "d", "}">>),
                     ObjectExpression(<<
                        ObjectProperty(Identifier(<<"n", "a", "m", "e">>), StringLiteral(<<"x">>)),
                        ObjectProperty(Identifier(<<"a", "g", "e">>), NumericLiteral),
                        ObjectProperty(StringLiteral(<<"o", "k">>), BooleanLiteral),
                        ObjectProperty(Identifier(<<"t", "a", "g", "s">>), ArrayExpression)>>)>>,
                   NoScope)

\* JSON.stringify(payload)
JsonStringifyPayload ==
    CallExpression(MemberExpression(Identifier(<<"J", "S", "O", "N">>), Identifier(<<"s", "t", "r", "i", "n", "g", "i", "f", "y">>)),
                   <<Identifier(<<"p", "a", "y", "l", "o", "a", "d">>)>>, NoScope)

\* const payload = { id: 1, active: true }
\* fetch(`/api/users/${userId}`, { method: 'put', body: JSON.stringify(payload) })
CsFetchPutTemplate ==
    CallExpression(Identifier(<<"f", "e", "t", "c", "h">>),
                   <<TemplateLiteral(<<<<"/", "a", "p", "i", "/", "u", "s", "e", "r", "s", "/">>, <<>>>>, <<Identifier(<<"u", "s", "e", "r", "I", "d">>)>>),
                     ObjectExpression(<<
                        ObjectProperty(Identifier(<<"m", "e", "t", "h", "o", "d">>), StringLiteral(<<"p", "u", "t">>)),
                        ObjectProperty(Identifier(<<"b", "o", "d", "y">>), JsonStringifyPayload)>>)>>,
                   <<VariableDeclarator(<<"p", "a", "y", "l", "o", "a", "d">>,
                        Some(ObjectExpression(<<
                            ObjectProperty(Identifier(<<"i", "d">>), NumericLiteral),
                            ObjectProperty(Identifier(<<"a", "c", "t", "i", "v", "e">>), BooleanLiteral)>>)))>>)

\* fetch('/api/users', { method: 'options' })
CsFetchOptionsVerb ==
    CallExpression(Identifier(<<"f", "e", "t", "c", "h">>),
                   <<StringLiteral(<<"/", "a", "p", "i", "/", "u", "s", "e", "r", "s">>),
                     ObjectExpression(<<
                        ObjectProperty(Identifier(<<"m", "e", "t", "h", "o", "d">>), StringLiteral(<<"o", "p", "t", "i", "o", "n", "s">>))>>)>>,
                   NoScope)

\* fetch('/api/users', opts)
CsFetchOptionsVariable ==
    CallExpression(Identifier(<<"f", "e", "t", "c", "h">>),
                   <<StringLiteral(<<"/", "a", "p", "i", "/", "u", "s", "e", "r", "s">>), Identifier(<<"o", "p", "t", "s">>)>>, NoScope)

\* fetch('/api/orders', { method: m })
CsFetchMethodVariable ==
    CallExpression(Identifier(<<"f", "e", "t", "c", "h">>),
                   <<StringLiteral(<<"/", "a", "p", "i", "/", "o", "r", "d", "e", "r", "s">>),
                     ObjectExpression(<<
                        ObjectProperty(Identifier(<<"m", "e", "t", "h", "o", "d">>), Identifier(<<"m">>))>>)>>,
                   NoScope)

\* fetch('/api/orders', { ...base, 'method': 'POST' })
CsFetchQuotedMethodKey ==
    CallExpression(Identifier(<<"f", "e", "t", "c", "h">>),
                   <<StringLiteral(<<"/", "a", "p", "i", "/", "o", "r", "d", "e", "r", "s">>),
                     ObjectExpression(<<
                        SpreadElement(Identifier(<<"b", "a", "s", "e">>)),
                        ObjectProperty(StringLiteral(<<"m", "e", "t", "h", "o", "d">>), StringLiteral(<<"P", "O", "S", "T">>))>>)>>,
                   NoScope)

\* this.http.Delete(`/api/orders/${order.id}`)
CsClientDeleteTemplate ==
    CallExpression(MemberExpression(
                       MemberExpression([type |-> "ThisExpression"], Identifier(<<"h", "t", "t", "p">>)),
                       Identifier(<<"D", "e", "l", "e", "t", "e">>)),
                   <<TemplateLiteral(<<<<"/", "a", "p", "i", "/", "o", "r", "d", "e", "r", "s", "/">>, <<>>>>,
                        <<MemberExpression(Identifier(<<"o", "r", "d", "e", "r">>), Identifier(<<"i", "d">>))>>)>>,
                   NoScope)

\* client['post']('/api/users', { name: 'x' })
CsComputedPost ==
    CallExpression(MemberExpression(Identifier(<<"c", "l", "i", "e", "n", "t">>), StringLiteral(<<"p", "o", "s", "t">>)),
                   <<StringLiteral(<<"/", "a", "p", "i", "/", "u", "s", "e", "r", "s">>),
                     ObjectExpression(<<
                        ObjectProperty(Identifier(<<"n", "a", "m", "e">>), StringLiteral(<<"x">>))>>)>>,
                   NoScope)

\* request('/api/users')
CsOtherFunction ==
    CallExpression(Identifier(<<"r", "e", "q", "u", "e", "s", "t">>), <<StringLiteral(<<"/", "a", "p", "i", "/", "u", "s", "e", "r", "s">>)>>, NoScope)

CallSites ==
    {CsFetchUsers, CsAxiosGetUsersQuery, CsFetchLogo, CsGetVariableUrl,
     CsPostLiteralBraces, CsFetchPutTemplate, CsFetchOptionsVerb,
     CsFetchOptionsVariable, CsFetchMethodVariable, CsFetchQuotedMethodKey,
     CsClientDeleteTemplate, CsComputedPost, CsOtherFunction}

\* The source files glob may find under srcPath
FileNames == {<<"s", "/", "a", ".", "j", "s">>, <<"s", "\\", "b", ".", "t", "s">>}

\* The arrays glob may resolve to: any of those files, in any order
GlobResults ==
    {fs \in UNION {[1..n -> FileNames] : n \in 0..Cardinality(FileNames)} :
        \A i, j \in 1..Len(fs) : i # j => fs[i] # fs[j]}

\* What the visitor computes for each call expression in each file
Visits == {Visitor(node, file) : node \in CallSites, file \in FileNames}

----------------------------------------------------------------------------
(* analyzeFrontend, lines 281-407, as a state machine                      *)

VARIABLES
    srcPath,       \* the argument: a nullable directory name
    srcExists,     \* fs.existsSync(srcPath)
    pc,            \* "start", "loop", "traverse", "returned" or "threw"
    files,         \* the array glob returned
    fileIdx,       \* 1-based position of the for loop in files
    endpoints,     \* the Map, as its entries in insertion order
    visited,       \* history: what the visitor computed at each call so far
    urlValue,      \* local of the visitor at its last exit
    method,        \* local of the visitor at its last exit
    schemaFields,  \* local of the visitor at its last exit
    result         \* the returned array, nullable

\* The state of the command line program around the analyzer (bin/index.js)
VARIABLES
    cliPc,             \* "idle", "prompted", "generating", "scaffolded",
                       \* "complete", "catch" or "exited"
    stack,             \* options.stack, the answer to the stack prompt
    dotnetAvailable,   \* what isCommandAvailable('dotnet') resolves to
    projectDirExists,  \* fs.existsSync(options.projectDir)
    existedBefore,     \* history: projectDirExists when generation started
    successPrinted,    \* the 'Backend generation complete!' line was logged
    exitCode           \* the argument of process.exit, nullable

cliVars == <<cliPc, stack, dotnetAvailable, projectDirExists, existedBefore,
             successPrinted, exitCode>>

\* The state of the watch command (the later version of bin/index.js)
VARIABLES
    watchPc,      \* "idle", "initial", "watching" or "exited"
    runs,         \* the calls of run in progress: what started each one
                  \* and the await it is suspended at
    eventsSeen,   \* how many file events chokidar has emitted so far
    regenerated   \* how many '[watch] regenerated' lines were logged

watchVars == <<watchPc, runs, eventsSeen, regenerated>>

\* The state renderAndWrite works on (generators/template.js)
VARIABLES
    outFile,   \* the content of the file at outPath, nullable (no file)
    renders    \* history: the calls of renderAndWrite so far

tplVars == <<outFile, renders>>

\* The state upsertApplicationProperties works on (the java generator)
VARIABLES
    propsFile,   \* the content of application.properties, nullable (no file)
    original,    \* history: propsFile before the first invocation
    upserts      \* history: propsFile after each invocation so far

propsVars == <<propsFile, original, upserts>>

hostVars == <<cliVars, watchVars, tplVars, propsVars>>

vars == <<srcPath, srcExists, pc, files, fileIdx, endpoints, visited,
          urlValue, method, schemaFields, result, hostVars>>

\* analyzeFrontend called on its own: no command line program runs
CliIdle ==
    /\ cliPc = "idle"
    /\ stack = ""
    /\ dotnetAvailable = FALSE
    /\ projectDirExists = FALSE
    /\ existedBefore = FALSE
    /\ successPrinted = FALSE
    /\ exitCode = <<>>

\* no watch command runs
WatchIdle ==
    /\ watchPc = "idle"
    /\ runs = <<>>
    /\ eventsSeen = 0
    /\ regenerated = 0

\* renderAndWrite is not called
TemplateIdle ==
    /\ outFile = <<>>
    /\ renders = <<>>

\* upsertApplicationProperties is not called
PropertiesIdle ==
    /\ propsFile = <<>>
    /\ original = <<>>
    /\ upserts = <<>>

HostIdle == CliIdle /\ WatchIdle /\ TemplateIdle /\ PropertiesIdle

Init ==
    /\ srcPath \in {Null, Some(<<"s">>)}
    /\ srcExists \in BOOLEAN
    /\ pc = "start"
    /\ files = <<>>
    /\ fileIdx = 1
    /\ endpoints = <<>>
    /\ visited = <<>>
    /\ urlValue = Null
    /\ method = GET
    /\ schemaFields = Null
    /\ result = Null
    /\ HostIdle

\* lines 282-285: the two throw statements
Throw ==
    /\ pc = "start"
    /\ IsNull(srcPath) \/ ~srcExists
    /\ pc' = "threw"
    /\ UNCHANGED hostVars
    /\ UNCHANGED <<srcPath, srcExists, files, fileIdx, endpoints, visited,
                   urlValue, method, schemaFields, result>>

\* lines 287-291: glob resolves and the map is created
Glob ==
    /\ pc = "start"
    /\ ~IsNull(srcPath) /\ srcExists
    /\ files' \in GlobResults
    /\ fileIdx' = 1
    /\ endpoints' = <<>>
    /\ pc' = "loop"
    /\ UNCHANGED hostVars
    /\ UNCHANGED <<srcPath, srcExists, visited, urlValue, method, schemaFields, result>>

\* lines 295-299: readFile rejects, continue
ReadFails ==
    /\ pc = "loop"
    /\ fileIdx <= Len(files)
    /\ fileIdx' = fileIdx + 1
    /\ UNCHANGED hostVars
    /\ UNCHANGED <<srcPath, srcExists, pc, files, endpoints, visited,
                   urlValue, method, schemaFields, result>>

\* a variant of ParseFails that leaves the loop: break where the code says continue
ParseFailsBreaks ==
    /\ pc = "loop"
    /\ fileIdx <= Len(files)
    /\ fileIdx' = Len(files) + 1
    /\ UNCHANGED hostVars
    /\ UNCHANGED <<srcPath, srcExists, pc, files, endpoints, visited,
                   urlValue, method, schemaFields, result>>

\* lines 301-306: parser.parse throws, continue
ParseFails ==
    /\ pc = "loop"
    /\ fileIdx <= Len(files)
    /\ fileIdx' = fileIdx + 1
    /\ UNCHANGED hostVars
    /\ UNCHANGED <<srcPath, srcExists, pc, files, endpoints, visited,
                   urlValue, method, schemaFields, result>>

\* lines 294-308: the file is read and parsed, traverse starts
Parse ==
    /\ pc = "loop"
    /\ fileIdx <= Len(files)
    /\ pc' = "traverse"
    /\ UNCHANGED hostVars
    /\ UNCHANGED <<srcPath, srcExists, files, fileIdx, endpoints, visited,
                   urlValue, method, schemaFields, result>>

\* lines 309-402: traverse calls the visitor on the next call expression
VisitCallExpression(visit) ==
    /\ pc = "traverse"
    /\ Len(visited) < MaxCalls
    /\ visit.file = files[fileIdx]
    /\ visited' = Append(visited, visit)
    /\ urlValue' = visit.locals.urlValue
    /\ method' = visit.locals.method
    /\ schemaFields' = visit.locals.schemaFields
    /\ endpoints' = Aggregate(endpoints, visit)
    /\ UNCHANGED hostVars
    /\ UNCHANGED <<srcPath, srcExists, pc, files, fileIdx, result>>

\* line 403: traverse returns, the loop goes on to the next file
EndTraverse ==
    /\ pc = "traverse"
    /\ pc' = "loop"
    /\ fileIdx' = fileIdx + 1
    /\ UNCHANGED hostVars
    /\ UNCHANGED <<srcPath, srcExists, files, endpoints, visited,
                   urlValue, method, schemaFields, result>>

\* line 406
Return ==
    /\ pc = "loop"
    /\ fileIdx > Len(files)
    /\ result' = Some(MapValues(endpoints))
    /\ pc' = "returned"
    /\ UNCHANGED hostVars
    /\ UNCHANGED <<srcPath, srcExists, files, fileIdx, endpoints, visited,
                   urlValue, method, schemaFields>>

Next ==
    \/ Throw
    \/ Glob
    \/ ReadFails
    \/ ParseFails
    \/ Parse
    \/ \E visit \in Visits : VisitCallExpression(visit)
    \/ EndTraverse
    \/ Return

Spec == Init /\ [][Next]_vars


----------------------------------------------------------------------------
(* Vocabulary of the properties: the call sites visited so far, read off   *)
(* the history visited, and the shapes of call the analyzer recognizes,    *)
(* read off the syntax tree.                                               *)

\* what the visitor computed for the i-th visited call expression
OutcomeAt(i) == visited[i]

\* the i-th visited call site passed the admission filter
AdmittedAt(i) == ~IsNull(OutcomeAt(i).endpoint)

AdmittedIndexes == {i \in 1..Len(visited) : AdmittedAt(i)}

\* the (method, route) pair of a descriptor
PairOf(e) == <<e.method, e.route>>

\* the (method, route) pair of the i-th visited call site, an admitted one
PairAt(i) == PairOf(OutcomeAt(i).endpoint[1])

\* the first visit of an admitted call site with the pair of descriptor e
FirstVisitOf(e) ==
    CHOOSE i \in AdmittedIndexes :
        /\ PairAt(i) = PairOf(e)
        /\ \A j \in AdmittedIndexes : PairAt(j) = PairOf(e) => i <= j

HasVisitOf(e) == \E i \in AdmittedIndexes : PairAt(i) = PairOf(e)

LastVisited == visited[Len(visited)]

\* Convention A: the callee is the bare identifier fetch
IsDirectRequest(node) ==
    node.callee.type = "Identifier" /\ node.callee.name = <<"f", "e", "t", "c", "h">>

\* Convention B: the callee is a property access whose property name is one
\* of the five verbs, compared case-insensitively
IsClientMethodCall(node) ==
    /\ node.callee.type = "MemberExpression"
    /\ node.callee.property.type = "Identifier"
    /\ toLowerCase(node.callee.property.name)
          \in {<<"g", "e", "t">>, <<"p", "o", "s", "t">>, <<"p", "u", "t">>, <<"p", "a", "t", "c", "h">>, <<"d", "e", "l", "e", "t", "e">>}

ContainsApiSegment(s) == \E i \in 0..Len(s) : OccursAt(s, <<"/", "a", "p", "i", "/">>, i)

\* the resolved URL of a call site: nullable
ResolvedUrl(node) == getUrlValue(Argument(node, 0))

\* a recognized call site that the admission filter drops
IsRejected(node) ==
    /\ IsDirectRequest(node) \/ IsClientMethodCall(node)
    /\ IsNull(ResolvedUrl(node)) \/ ~ContainsApiSegment(ResolvedUrl(node)[1])


----------------------------------------------------------------------------
(* C1: the list holds exactly one descriptor for each distinct             *)
(* (method, route) pair among the admitted call sites visited so far, and  *)
(* no two descriptors of the list have the same method and the same route; *)
(* the returned list is that list.                                         *)

OnePerPair(list) ==
    /\ \A a, b \in 1..Len(list) : a # b => PairOf(list[a]) # PairOf(list[b])
    /\ {PairOf(list[k]) : k \in 1..Len(list)} = {PairAt(i) : i \in AdmittedIndexes}

C1_OneDescriptorPerMethodRoute ==
    /\ OnePerPair(MapValues(endpoints))
    /\ pc = "returned" => OnePerPair(result[1])

\* three admitted call sites of two files, two of them with the same method
\* and route, have been folded into two descriptors and returned
C1_Witness ==
    /\ pc = "returned"
    /\ Len(result[1]) = 2
    /\ Cardinality(AdmittedIndexes) = 3
    /\ visited[1].file # visited[3].file
    /\ PairAt(1) = PairAt(3)
    /\ PairAt(1) # PairAt(2)

----------------------------------------------------------------------------
(* C2: the descriptor kept for a key is exactly the one built from the     *)
(* first admitted call site with that key in traversal order, with all its *)
(* fields; a later call site with that key leaves the map unchanged, and   *)
(* no entry of the map is ever changed once it is there.                   *)

KeptIsFirst ==
    \A k \in 1..Len(endpoints) :
        /\ HasVisitOf(endpoints[k].value)
        /\ endpoints[k].value = OutcomeAt(FirstVisitOf(endpoints[k].value)).endpoint[1]

LaterDuplicateChangesNothing ==
    /\ \A k \in 1..Len(endpoints) :
          Len(endpoints') >= k /\ endpoints'[k] = endpoints[k]
    /\ (/\ visited' # visited
        /\ ~IsNull(visited'[Len(visited')].endpoint)
        /\ \E k \in 1..Len(endpoints) :
              PairOf(endpoints[k].value) = PairOf(visited'[Len(visited')].endpoint[1]))
       => endpoints' = endpoints

C2_FirstWins == [](KeptIsFirst) /\ [][LaterDuplicateChangesNothing]_vars

\* fetch('/api/users') of one file was visited before
\* axios.get('/api/users?page=1&page=2&q=x') of the other file: the two build
\* different descriptors for the same key and the first one is kept
C2_Witness ==
    /\ Len(visited) = 2
    /\ visited[1].node = CsFetchUsers
    /\ visited[2].node = CsAxiosGetUsersQuery
    /\ visited[1].file # visited[2].file
    /\ OutcomeAt(1).endpoint # OutcomeAt(2).endpoint
    /\ Len(endpoints) = 1
    /\ endpoints[1].value.path = <<"/", "a", "p", "i", "/", "u", "s", "e", "r", "s">>
    /\ endpoints[1].value.queryParams = <<>>
    /\ endpoints[1].value.sourceFile = normalizeSlashes(visited[1].file)

----------------------------------------------------------------------------
(* C3: the list is ordered by first insertion: descriptor A precedes       *)
(* descriptor B exactly when the first call site with A's key was visited  *)
(* before the first call site with B's key, the files being visited in the *)
(* order of the file list.                                                 *)

FilePosition(file) == CHOOSE n \in 1..Len(files) : files[n] = file

VisitedInTraversalOrder ==
    \A i, j \in 1..Len(visited) :
        i <= j => FilePosition(visited[i].file) <= FilePosition(visited[j].file)

FirstInsertionOrder(list) ==
    /\ \A a \in 1..Len(list) : HasVisitOf(list[a])
    /\ \A a, b \in 1..Len(list) :
          a < b <=> FirstVisitOf(list[a]) < FirstVisitOf(list[b])

C3_FirstInsertionOrder ==
    /\ VisitedInTraversalOrder
    /\ FirstInsertionOrder(MapValues(endpoints))
    /\ pc = "returned" => FirstInsertionOrder(result[1])

\* a key first seen in the first file, another key, then the first key again
\* in the second file: the returned list has the first key first
C3_Witness ==
    /\ pc = "returned"
    /\ Len(visited) = 3
    /\ AdmittedIndexes = {1, 2, 3}
    /\ PairAt(1) = PairAt(3)
    /\ PairAt(1) # PairAt(2)
    /\ visited[1].file # visited[3].file
    /\ Len(result[1]) = 2
    /\ PairOf(result[1][1]) = PairAt(1)
    /\ PairOf(result[1][2]) = PairAt(2)

----------------------------------------------------------------------------
(* C4: a recognized call site whose resolved URL does not contain /api/    *)
(* (or whose URL argument is neither a string literal nor a template       *)
(* literal) produces no descriptor, leaves the map unchanged and raises no *)
(* error: the traversal goes on.                                           *)

RejectedLeavesMapAlone ==
    (visited' # visited /\ IsRejected(visited'[Len(visited')].node))
        => (endpoints' = endpoints /\ pc' = "traverse" /\ result' = result)

C4_AdmissionFilter == [][RejectedLeavesMapAlone]_vars

\* fetch('/assets/logo.png') and api.get(url) were visited after an admitted
\* call site, and the map still holds that one descriptor only
C4_Witness ==
    /\ Len(visited) = 3
    /\ AdmittedAt(1)
    /\ visited[2].node = CsFetchLogo
    /\ visited[3].node = CsGetVariableUrl
    /\ IsRejected(visited[2].node) /\ IsRejected(visited[3].node)
    /\ Len(endpoints) = 1
    /\ pc = "traverse"

----------------------------------------------------------------------------
(* C5: for every literal URL containing /api/, every {name} of the URL is  *)
(* :name in the route of the descriptor and no brace character remains in  *)
(* that route.                                                             *)

HasBrace(s) == \E i \in 1..Len(s) : s[i] \in {"{", "}"}

IsLiteralUrlCall(node) ==
    Len(node.arguments) >= 1 /\ node.arguments[1].type = "StringLiteral"

C5_NoBracesInRoute ==
    \A k \in 1..Len(endpoints) :
        LET e == endpoints[k].value
        IN  (HasVisitOf(e) /\ IsLiteralUrlCall(OutcomeAt(FirstVisitOf(e)).node))
                => ~HasBrace(e.route)

----------------------------------------------------------------------------
(* C6: pathParams of every descriptor is the list of the distinct names of *)
(* the :name (or {name}) tokens of its route, in order of first            *)
(* appearance; /api/users/:userId has pathParams [userId].                 *)

\* the names of the :name and {name} tokens of route from position i on
RECURSIVE TokenNamesFrom(_, _)
TokenNamesFrom(route, i) ==
    IF i > Len(route) THEN <<>>
    ELSE LET n == RunLen(route, i + 1, WordChars)
         IN  IF route[i] = ":" /\ n >= 1
             THEN <<SubSeq(route, i + 1, i + n)>> \o TokenNamesFrom(route, i + n + 1)
             ELSE IF /\ route[i] = "{"
                     /\ n >= 1
                     /\ i + n + 1 <= Len(route)
                     /\ route[i + n + 1] = "}"
             THEN <<SubSeq(route, i + 1, i + n)>> \o TokenNamesFrom(route, i + n + 2)
             ELSE TokenNamesFrom(route, i + 1)

C6_PathParamsAreRouteTokens ==
    \A k \in 1..Len(endpoints) :
        endpoints[k].value.pathParams
            = ArrayFromSet(TokenNamesFrom(endpoints[k].value.route, 1))

----------------------------------------------------------------------------
(* C7: queryParams of every descriptor is the list of the distinct key     *)
(* names of the query suffix of its raw URL, in order of first appearance: *)
(* a key that occurs several times is listed once, and a URL without ?     *)
(* gives the empty list.                                                   *)

QueryKeys(path) ==
    LET q == indexOf(path, <<"?">>)
    IN  IF q = -1 THEN <<>>
        ELSE LET pairs == split(slice(path, q + 1), "&")
             IN  filterBoolean([i \in 1..Len(pairs) |-> split(pairs[i], "=")[1]])

C7_QueryParamsDistinct ==
    \A k \in 1..Len(endpoints) :
        LET e == endpoints[k].value
        IN  /\ e.queryParams = ArrayFromSet(QueryKeys(e.path))
            /\ \A a, b \in 1..Len(e.queryParams) :
                  a # b => e.queryParams[a] # e.queryParams[b]

----------------------------------------------------------------------------
(* C8: the method of every descriptor is one of GET, POST, PUT, PATCH,     *)
(* DELETE, for every recognized call site of either convention.            *)

FiveMethods == {<<"G", "E", "T">>, <<"P", "O", "S", "T">>, <<"P", "U", "T">>, <<"P", "A", "T", "C", "H">>, <<"D", "E", "L", "E", "T", "E">>}

C8_MethodIsOneOfFive ==
    /\ \A k \in 1..Len(endpoints) : endpoints[k].value.method \in FiveMethods
    /\ pc = "returned" => \A k \in 1..Len(result[1]) : result[1][k].method \in FiveMethods

----------------------------------------------------------------------------
(* C9: for a direct-request call the method is GET when there is no        *)
(* options record, when the options record has no method property (a       *)
(* property with the identifier key method), or when the value of that     *)
(* property is not a string literal; when the value is a string literal    *)
(* the method is that value upper-cased.  The descriptor of an admitted    *)
(* direct-request call carries that method.                                *)

HasOptionsRecord(node) ==
    Len(node.arguments) >= 2 /\ node.arguments[2].type = "ObjectExpression"

MethodProperties(node) ==
    LET props == node.arguments[2].properties
    IN  {i \in 1..Len(props) :
            /\ props[i].type = "ObjectProperty"
            /\ props[i].key.type = "Identifier"
            /\ props[i].key.name = <<"m", "e", "t", "h", "o", "d">>}

\* the value of the (first) method property of the options record
MethodValue(node) ==
    LET hits == MethodProperties(node)
    IN  node.arguments[2].properties[CHOOSE i \in hits : \A j \in hits : i <= j].value

DirectRequestMethod(node) ==
    IF ~HasOptionsRecord(node) THEN <<"G", "E", "T">>
    ELSE IF MethodProperties(node) = {} THEN <<"G", "E", "T">>
    ELSE IF MethodValue(node).type # "StringLiteral" THEN <<"G", "E", "T">>
    ELSE toUpperCase(MethodValue(node).value)

----------------------------------------------------------------------------
(* C10: for a client-method call the method is the property name           *)
(* upper-cased, whatever the client object is, and the descriptor of an    *)
(* admitted one carries it; a call that is neither a client-method call    *)
(* nor a direct-request call is ignored: it never changes the map.         *)

ClientMethodIsPropertyName ==
    (visited # <<>> /\ IsClientMethodCall(LastVisited.node)) =>
        /\ method = toUpperCase(LastVisited.node.callee.property.name)
        /\ ~IsNull(LastVisited.endpoint) =>
              \E k \in 1..Len(endpoints) :
                  /\ endpoints[k].value.method
                        = toUpperCase(LastVisited.node.callee.property.name)
                  /\ endpoints[k].value.route = LastVisited.endpoint[1].route

OtherCallIsIgnored ==
    (/\ visited' # visited
     /\ ~IsDirectRequest(visited'[Len(visited')].node)
     /\ ~IsClientMethodCall(visited'[Len(visited')].node))
        => endpoints' = endpoints

----------------------------------------------------------------------------
(* A second universe of call sites, for the derivations made from the URL: *)
(* template literals with several embedded expressions, version segments,  *)
(* query suffixes and paths with no resource segment.                      *)

\* fetch(`/api/users/${userId}`)
CsTemplateUserId ==
    CallExpression(Identifier(<<"f", "e", "t", "c", "h">>),
                   <<TemplateLiteral(<<<<"/", "a", "p", "i", "/", "u", "s", "e", "r", "s", "/">>, <<>>>>, <<Identifier(<<"u", "s", "e", "r", "I", "d">>)>>)>>,
                   NoScope)

\* api.get(`/api/${a.b}/items/${id}/${f()}`)
CsTemplateMixed ==
    CallExpression(MemberExpression(Identifier(<<"a", "p", "i">>), Identifier(<<"g", "e", "t">>)),
                   <<TemplateLiteral(<<<<"/", "a", "p", "i", "/">>, <<"/", "i", "t", "e", "m", "s", "/">>, <<"/">>, <<>>>>,
                        <<MemberExpression(Identifier(<<"a">>), Identifier(<<"b">>)),
                          Identifier(<<"i", "d">>),
                          CallExpression(Identifier(<<"f">>), <<>>, NoScope)>>)>>,
                   NoScope)

\* http.put(`${base}/api/V10/orders/${id}`)
CsTemplateHostVersion ==
    CallExpression(MemberExpression(Identifier(<<"h", "t", "t", "p">>), Identifier(<<"p", "u", "t">>)),
                   <<TemplateLiteral(<<<<>>, <<"/", "a", "p", "i", "/", "V", "1", "0", "/", "o", "r", "d", "e", "r", "s", "/">>, <<>>>>,
                        <<Identifier(<<"b", "a", "s", "e">>), Identifier(<<"i", "d">>)>>)>>,
                   NoScope)

\* axios.get('/api/v2/orders')
CsGetVersionedOrders ==
    CallExpression(MemberExpression(Identifier(<<"a", "x", "i", "o", "s">>), Identifier(<<"g", "e", "t">>)),
                   <<StringLiteral(<<"/", "a", "p", "i", "/", "v", "2", "/", "o", "r", "d", "e", "r", "s">>)>>, NoScope)

\* api.get('/api/v2/orders?page=1')
CsGetVersionedOrdersPage ==
    CallExpression(MemberExpression(Identifier(<<"a", "p", "i">>), Identifier(<<"g", "e", "t">>)),
                   <<StringLiteral(<<"/", "a", "p", "i", "/", "v", "2", "/", "o", "r", "d", "e", "r", "s", "?", "p", "a", "g", "e", "=", "1">>)>>, NoScope)

\* axios.post('/api/orders')
CsPostOrders ==
    CallExpression(MemberExpression(Identifier(<<"a", "x", "i", "o", "s">>), Identifier(<<"p", "o", "s", "t">>)),
                   <<StringLiteral(<<"/", "a", "p", "i", "/", "o", "r", "d", "e", "r", "s">>)>>, NoScope)

\* fetch('/api/v2/')
CsFetchVersionOnly ==
    CallExpression(Identifier(<<"f", "e", "t", "c", "h">>), <<StringLiteral(<<"/", "a", "p", "i", "/", "v", "2", "/">>)>>, NoScope)

\* fetch('http://h/api/')
CsFetchApiRoot ==
    CallExpression(Identifier(<<"f", "e", "t", "c", "h">>), <<StringLiteral(<<"h", "t", "t", "p", ":", "/", "/", "h", "/", "a", "p", "i", "/">>)>>, NoScope)

\* fetch('/api/users?page=1')
CsFetchUsersPage ==
    CallExpression(Identifier(<<"f", "e", "t", "c", "h">>), <<StringLiteral(<<"/", "a", "p", "i", "/", "u", "s", "e", "r", "s", "?", "p", "a", "g", "e", "=", "1">>)>>, NoScope)

\* axios.post('/api/products')
CsPostProducts ==
    CallExpression(MemberExpression(Identifier(<<"a", "x", "i", "o", "s">>), Identifier(<<"p", "o", "s", "t">>)),
                   <<StringLiteral(<<"/", "a", "p", "i", "/", "p", "r", "o", "d", "u", "c", "t", "s">>)>>, NoScope)

\* axios.delete('/api/order-items/{item_id}/')
CsDeleteOrderItem ==
    CallExpression(MemberExpression(Identifier(<<"a", "x", "i", "o", "s">>), Identifier(<<"d", "e", "l", "e", "t", "e">>)),
                   <<StringLiteral(<<"/", "a", "p", "i", "/", "o", "r", "d", "e", "r", "-", "i", "t", "e", "m", "s", "/", "{", "i", "t", "e", "m", "_", "i", "d", "}", "/">>)>>, NoScope)

UrlCallSites ==
    {CsTemplateUserId, CsTemplateMixed, CsTemplateHostVersion, CsGetVersionedOrders,
     CsGetVersionedOrdersPage,
     CsPostOrders, CsFetchVersionOnly, CsFetchApiRoot, CsFetchUsers, CsFetchUsersPage,
     CsPostProducts, CsDeleteOrderItem}

UrlVisits == {Visitor(node, file) : node \in UrlCallSites, file \in FileNames}

\* analyzeFrontend over files whose call expressions are those of UrlCallSites
NextUrls ==
    \/ Throw
    \/ Glob
    \/ ReadFails
    \/ ParseFails
    \/ Parse
    \/ \E visit \in UrlVisits : VisitCallExpression(visit)
    \/ EndTraverse
    \/ Return

SpecUrls == Init /\ [][NextUrls]_vars

----------------------------------------------------------------------------
(* C11: for a template-literal URL the resolved URL is the concatenation   *)
(* of the literal fragments in order, each embedded expression replaced by *)
(* {name} when it is a bare identifier named name and by {paramK}          *)
(* otherwise, K being the 1-based position of the expression among the     *)
(* template's expressions; the fragment /api/users/ followed by the        *)
(* identifier userId gives the path /api/users/{userId} and the route      *)
(* /api/users/:userId.                                                     *)

\* the text standing for the k-th embedded expression
PlaceholderOf(expr, k) ==
    IF expr.type = "Identifier" THEN <<"{">> \o expr.name \o <<"}">>
    ELSE <<"{", "p", "a", "r", "a", "m">> \o NumberToString(k) \o <<"}">>

\* the first n fragments, each followed by the placeholder of its expression
RECURSIVE Reconstructed(_, _)
Reconstructed(template, n) ==
    IF n = 0 THEN <<>>
    ELSE Reconstructed(template, n - 1)
         \o template.quasis[n]
         \o (IF n <= Len(template.expressions)
             THEN PlaceholderOf(template.expressions[n], n)
             ELSE <<>>)

\* a recognized call whose URL argument is a template literal
HasTemplateUrl(visit) ==
    /\ visit.recognized
    /\ Len(visit.node.arguments) >= 1
    /\ visit.node.arguments[1].type = "TemplateLiteral"

UserIdTemplate == TemplateLiteral(<<<<"/", "a", "p", "i", "/", "u", "s", "e", "r", "s", "/">>, <<>>>>, <<Identifier(<<"u", "s", "e", "r", "I", "d">>)>>)

C11_TemplateReconstruction ==
    \A i \in 1..Len(visited) :
        HasTemplateUrl(visited[i]) =>
            LET template == visited[i].node.arguments[1] IN
            /\ visited[i].locals.urlValue
                  = Some(Reconstructed(template, Len(template.quasis)))
            /\ template = UserIdTemplate =>
                  /\ AdmittedAt(i)
                  /\ visited[i].endpoint[1].path = <<"/", "a", "p", "i", "/", "u", "s", "e", "r", "s", "/", "{", "u", "s", "e", "r", "I", "d", "}">>
                  /\ visited[i].endpoint[1].route = <<"/", "a", "p", "i", "/", "u", "s", "e", "r", "s", "/", ":", "u", "s", "e", "r", "I", "d">>

\* api.get(`/api/${a.b}/items/${id}/${f()}`) resolved to
\* /api/{param1}/items/{id}/{param3}, and fetch(`/api/users/${userId}`) is in
\* the map with the route /api/users/:userId
C11_Witness ==
    /\ Len(visited) = 2
    /\ visited[1].node = CsTemplateMixed
    /\ visited[1].locals.urlValue = Some(<<"/", "a", "p", "i", "/", "{", "p", "a", "r", "a", "m", "1", "}", "/", "i", "t", "e", "m", "s", "/", "{", "i", "d", "}", "/", "{", "p", "a", "r", "a", "m", "3", "}">>)
    /\ visited[2].node = CsTemplateUserId
    /\ urlValue = Some(<<"/", "a", "p", "i", "/", "u", "s", "e", "r", "s", "/", "{", "u", "s", "e", "r", "I", "d", "}">>)
    /\ Len(endpoints) = 2
    /\ endpoints[2].value.route = <<"/", "a", "p", "i", "/", "u", "s", "e", "r", "s", "/", ":", "u", "s", "e", "r", "I", "d">>

----------------------------------------------------------------------------
(* Vocabulary of the controller-name properties: the segments of a         *)
(* descriptor's path, the query suffix left out.                           *)

\* the path without its query suffix
PathOnly(path) == split(path, "?")[1]

\* the non-empty segments of the path that follow the segment api
SegmentsAfterApi(path) ==
    LET segs == filterBoolean(split(PathOnly(path), "/"))
    IN  SubSeq(segs, 2, Len(segs))

\* v followed by digits
IsVersionPattern(seg) ==
    /\ Len(seg) >= 2
    /\ seg[1] = "v"
    /\ \A k \in 2..Len(seg) : seg[k] \in DigitChars

\* the descriptor built at the i-th visited call site, an admitted one
DescriptorAt(i) == visited[i].endpoint[1]

----------------------------------------------------------------------------
(* C12: when the path segment right after api matches v followed by digits *)
(* and another segment follows it, controllerName is the title-cased       *)
(* following segment; /api/v2/orders derives Orders and /api/orders        *)
(* derives Orders.                                                         *)

C12_VersionSegmentSkipped ==
    \A i \in AdmittedIndexes :
        LET segs == SegmentsAfterApi(DescriptorAt(i).path) IN
        /\ (Len(segs) >= 2 /\ IsVersionPattern(segs[1]))
              => DescriptorAt(i).controllerName = toTitleCase(Some(segs[2]))
        /\ DescriptorAt(i).path \in {<<"/", "a", "p", "i", "/", "v", "2", "/", "o", "r", "d", "e", "r", "s">>, <<"/", "a", "p", "i", "/", "o", "r", "d", "e", "r", "s">>}
              => DescriptorAt(i).controllerName = <<"O", "r", "d", "e", "r", "s">>

----------------------------------------------------------------------------
(* C13: for an admitted URL that has no segment after api, or whose only   *)
(* segment after api is a version segment, controllerName is Default and   *)
(* is never the version segment itself.                                    *)

C13_DefaultWithoutResource ==
    \A i \in AdmittedIndexes :
        LET segs == SegmentsAfterApi(DescriptorAt(i).path) IN
        (Len(segs) = 0 \/ (Len(segs) = 1 /\ IsVersionPattern(segs[1])))
            => DescriptorAt(i).controllerName = <<"D", "e", "f", "a", "u", "l", "t">>

----------------------------------------------------------------------------
(* C14: two admitted URLs with the same path that differ only in their     *)
(* query suffix derive the same controllerName: the controllerName of a    *)
(* descriptor is the one derived from its path without the query suffix.   *)

C14_ControllerIgnoresQuery ==
    /\ \A i, j \in AdmittedIndexes :
          PathOnly(DescriptorAt(i).path) = PathOnly(DescriptorAt(j).path)
              => DescriptorAt(i).controllerName = DescriptorAt(j).controllerName
    /\ \A i \in AdmittedIndexes :
          DescriptorAt(i).controllerName
              = deriveControllerNameFromUrl(PathOnly(DescriptorAt(i).path))

----------------------------------------------------------------------------
(* C15: actionName of every descriptor is the lower-cased method followed  *)
(* by the title-cased last token of the route, the tokens being what is    *)
(* left of the route, its leading /api/ stripped, between the path-syntax  *)
(* characters; when no token remains the token Action is used.  GET        *)
(* /api/users gives getUsers, POST /api/products gives postProducts.       *)

\* the path-syntax characters, and the blank they are replaced with
TokenSeparators == {"/", ":", "{", "}", "-", " "}

WithoutApiPrefix(route) ==
    IF OccursAt(route, <<"/", "a", "p", "i", "/">>, 0) THEN slice(route, 5) ELSE route

\* the last maximal run of characters that are not separators, or Action
LastTokenOf(s) ==
    LET inToken == {k \in 1..Len(s) : s[k] \notin TokenSeparators} IN
    IF inToken = {} THEN <<"A", "c", "t", "i", "o", "n">>
    ELSE LET hi == CHOOSE k \in inToken : \A m \in inToken : m <= k
             lo == CHOOSE k \in 1..hi :
                      /\ \A m \in k..hi : m \in inToken
                      /\ k > 1 => (k - 1) \notin inToken
         IN  SubSeq(s, lo, hi)

ExpectedActionName(e) ==
    toLowerCase(e.method) \o toTitleCase(Some(LastTokenOf(WithoutApiPrefix(e.route))))

\* every descriptor is built by a visit, and every visit is the last one in
\* the state that follows it
C15_ActionName ==
    /\ (Len(visited) > 0 /\ AdmittedAt(Len(visited))) =>
          LET e == DescriptorAt(Len(visited)) IN
          /\ e.actionName = ExpectedActionName(e)
          /\ (e.method = <<"G", "E", "T">> /\ e.route = <<"/", "a", "p", "i", "/", "u", "s", "e", "r", "s">>)
                => e.actionName = <<"g", "e", "t", "U", "s", "e", "r", "s">>
          /\ (e.method = <<"P", "O", "S", "T">> /\ e.route = <<"/", "a", "p", "i", "/", "p", "r", "o", "d", "u", "c", "t", "s">>)
                => e.actionName = <<"p", "o", "s", "t", "P", "r", "o", "d", "u", "c", "t", "s">>
    /\ \A k \in 1..Len(endpoints) :
          \E i \in AdmittedIndexes : endpoints[k].value = DescriptorAt(i)

\* the map holds getUsers, postProducts, the several-token route
\* /api/order-items/:item_id/ with deleteItemId, and the call site of the
\* token-less route /api/ was given getAction
C15_Witness ==
    /\ Len(visited) = 3
    /\ visited[1].node = CsPostProducts
    /\ visited[2].node = CsDeleteOrderItem
    /\ visited[3].node = CsFetchApiRoot
    /\ Len(endpoints) = 3
    /\ endpoints[1].value.actionName = <<"p", "o", "s", "t", "P", "r", "o", "d", "u", "c", "t", "s">>
    /\ endpoints[2].value.route = <<"/", "a", "p", "i", "/", "o", "r", "d", "e", "r", "-", "i", "t", "e", "m", "s", "/", ":", "i", "t", "e", "m", "_", "i", "d", "/">>
    /\ endpoints[2].value.actionName = <<"d", "e", "l", "e", "t", "e", "I", "t", "e", "m", "I", "d">>
    /\ endpoints[3].value.route = <<"/", "a", "p", "i", "/">>
    /\ endpoints[3].value.actionName = <<"g", "e", "t", "A", "c", "t", "i", "o", "n">>

----------------------------------------------------------------------------
(* A third universe of call sites, for the request-body schema: payloads   *)
(* written inline, payload identifiers with and without a declaration in   *)
(* scope, and calls of the methods that carry no body.                     *)

\* { id: 1, active: true }
IdActiveLiteral ==
    ObjectExpression(<<ObjectProperty(Identifier(<<"i", "d">>), NumericLiteral),
                       ObjectProperty(Identifier(<<"a", "c", "t", "i", "v", "e">>), BooleanLiteral)>>)

\* { name: 'x' }
NameLiteral ==
    ObjectExpression(<<ObjectProperty(Identifier(<<"n", "a", "m", "e">>), StringLiteral(<<"x">>))>>)

\* const payload = { id: 1, active: true }
\* client.post('/api/widgets', payload)
CsPostWidgetsPayload ==
    CallExpression(MemberExpression(Identifier(<<"c", "l", "i", "e", "n", "t">>), Identifier(<<"p", "o", "s", "t">>)),
                   <<StringLiteral(<<"/", "a", "p", "i", "/", "w", "i", "d", "g", "e", "t", "s">>), Identifier(<<"p", "a", "y", "l", "o", "a", "d">>)>>,
                   <<VariableDeclarator(<<"p", "a", "y", "l", "o", "a", "d">>, Some(IdActiveLiteral))>>)

\* const payload = { id: 1, active: true }
\* function save () { const payload = { name: 'x' }; client.put('/api/widgets', payload) }
CsPutShadowedPayload ==
    CallExpression(MemberExpression(Identifier(<<"c", "l", "i", "e", "n", "t">>), Identifier(<<"p", "u", "t">>)),
                   <<StringLiteral(<<"/", "a", "p", "i", "/", "w", "i", "d", "g", "e", "t", "s">>), Identifier(<<"p", "a", "y", "l", "o", "a", "d">>)>>,
                   <<VariableDeclarator(<<"p", "a", "y", "l", "o", "a", "d">>, Some(NameLiteral)),
                     VariableDeclarator(<<"p", "a", "y", "l", "o", "a", "d">>, Some(IdActiveLiteral))>>)

\* const payload = { id: 1, active: true }
\* function save (payload) { client.patch('/api/widgets', payload) }
CsPatchParameterPayload ==
    CallExpression(MemberExpression(Identifier(<<"c", "l", "i", "e", "n", "t">>), Identifier(<<"p", "a", "t", "c", "h">>)),
                   <<StringLiteral(<<"/", "a", "p", "i", "/", "w", "i", "d", "g", "e", "t", "s">>), Identifier(<<"p", "a", "y", "l", "o", "a", "d">>)>>,
                   <<FunctionParam(<<"p", "a", "y", "l", "o", "a", "d">>),
                     VariableDeclarator(<<"p", "a", "y", "l", "o", "a", "d">>, Some(IdActiveLiteral))>>)

\* const payload = { id: 1, active: true }
\* client.post('/api/notes', data), data declared nowhere
CsPostUndeclared ==
    CallExpression(MemberExpression(Identifier(<<"c", "l", "i", "e", "n", "t">>), Identifier(<<"p", "o", "s", "t">>)),
                   <<StringLiteral(<<"/", "a", "p", "i", "/", "n", "o", "t", "e", "s">>), Identifier(<<"d", "a", "t", "a">>)>>,
                   <<VariableDeclarator(<<"p", "a", "y", "l", "o", "a", "d">>, Some(IdActiveLiteral))>>)

\* const base = { id: 1, active: true }; const alias = base
\* client.post('/api/tags', alias)
CsPostTwoHops ==
    CallExpression(MemberExpression(Identifier(<<"c", "l", "i", "e", "n", "t">>), Identifier(<<"p", "o", "s", "t">>)),
                   <<StringLiteral(<<"/", "a", "p", "i", "/", "t", "a", "g", "s">>), Identifier(<<"a", "l", "i", "a", "s">>)>>,
                   <<VariableDeclarator(<<"a", "l", "i", "a", "s">>, Some(Identifier(<<"b", "a", "s", "e">>))),
                     VariableDeclarator(<<"b", "a", "s", "e">>, Some(IdActiveLiteral))>>)

\* JSON.stringify(body)
JsonStringifyBody ==
    CallExpression(MemberExpression(Identifier(<<"J", "S", "O", "N">>), Identifier(<<"s", "t", "r", "i", "n", "g", "i", "f", "y">>)),
                   <<Identifier(<<"b", "o", "d", "y">>)>>, NoScope)

\* const body = makeBody()
\* fetch('/api/items', { method: 'POST', body: JSON.stringify(body) })
CsFetchPostCallInit ==
    CallExpression(Identifier(<<"f", "e", "t", "c", "h">>),
                   <<StringLiteral(<<"/", "a", "p", "i", "/", "i", "t", "e", "m", "s">>),
                     ObjectExpression(<<
                        ObjectProperty(Identifier(<<"m", "e", "t", "h", "o", "d">>), StringLiteral(<<"P", "O", "S", "T">>)),
                        ObjectProperty(Identifier(<<"b", "o", "d", "y">>), JsonStringifyBody)>>)>>,
                   <<VariableDeclarator(<<"b", "o", "d", "y">>,
                        Some(CallExpression(Identifier(<<"m", "a", "k", "e", "B", "o", "d", "y">>), <<>>, NoScope)))>>)

\* const body = { name: 'x' }
\* fetch('/api/items', { method: 'PATCH', body: JSON.stringify(body) })
CsFetchPatchPayload ==
    CallExpression(Identifier(<<"f", "e", "t", "c", "h">>),
                   <<StringLiteral(<<"/", "a", "p", "i", "/", "i", "t", "e", "m", "s">>),
                     ObjectExpression(<<
                        ObjectProperty(Identifier(<<"m", "e", "t", "h", "o", "d">>), StringLiteral(<<"P", "A", "T", "C", "H">>)),
                        ObjectProperty(Identifier(<<"b", "o", "d", "y">>), JsonStringifyBody)>>)>>,
                   <<VariableDeclarator(<<"b", "o", "d", "y">>, Some(NameLiteral))>>)

\* const body = { name: 'x' }
\* fetch('/api/raw', { method: 'POST', body: body })
CsFetchPostUnwrappedBody ==
    CallExpression(Identifier(<<"f", "e", "t", "c", "h">>),
                   <<StringLiteral(<<"/", "a", "p", "i", "/", "r", "a", "w">>),
                     ObjectExpression(<<
                        ObjectProperty(Identifier(<<"m", "e", "t", "h", "o", "d">>), StringLiteral(<<"P", "O", "S", "T">>)),
                        ObjectProperty(Identifier(<<"b", "o", "d", "y">>), Identifier(<<"b", "o", "d", "y">>))>>)>>,
                   <<VariableDeclarator(<<"b", "o", "d", "y">>, Some(NameLiteral))>>)

\* axios.delete('/api/widgets', { id: 1, active: true })
CsDeleteWithLiteral ==
    CallExpression(MemberExpression(Identifier(<<"a", "x", "i", "o", "s">>), Identifier(<<"d", "e", "l", "e", "t", "e">>)),
                   <<StringLiteral(<<"/", "a", "p", "i", "/", "w", "i", "d", "g", "e", "t", "s">>), IdActiveLiteral>>, NoScope)

\* fetch('/api/search', { body: JSON.stringify({ name: 'x' }) })
CsFetchGetWithBody ==
    CallExpression(Identifier(<<"f", "e", "t", "c", "h">>),
                   <<StringLiteral(<<"/", "a", "p", "i", "/", "s", "e", "a", "r", "c", "h">>),
                     ObjectExpression(<<
                        ObjectProperty(Identifier(<<"b", "o", "d", "y">>),
                            CallExpression(
                                MemberExpression(Identifier(<<"J", "S", "O", "N">>), Identifier(<<"s", "t", "r", "i", "n", "g", "i", "f", "y">>)),
                                <<NameLiteral>>, NoScope))>>)>>,
                   NoScope)

\* { text: 'x', n: 1, ok: true, nil: null, nested: { name: 'x' }, list: [],
\*   at: now(), ref: other, ...rest, 7: 'x', 'quoted-key': 2 }
MixedLiteral ==
    ObjectExpression(<<
        ObjectProperty(Identifier(<<"t", "e", "x", "t">>), StringLiteral(<<"x">>)),
        ObjectProperty(Identifier(<<"n">>), NumericLiteral),
        ObjectProperty(Identifier(<<"o", "k">>), BooleanLiteral),
        ObjectProperty(Identifier(<<"n", "i", "l">>), NullLiteral),
        ObjectProperty(Identifier(<<"n", "e", "s", "t", "e", "d">>), NameLiteral),
        ObjectProperty(Identifier(<<"l", "i", "s", "t">>), ArrayExpression),
        ObjectProperty(Identifier(<<"a", "t">>),
            CallExpression(Identifier(<<"n", "o", "w">>), <<>>, NoScope)),
        ObjectProperty(Identifier(<<"r", "e", "f">>), Identifier(<<"o", "t", "h", "e", "r">>)),
        SpreadElement(Identifier(<<"r", "e", "s", "t">>)),
        ObjectProperty(NumericLiteral, StringLiteral(<<"x">>)),
        ObjectProperty(StringLiteral(<<"q", "u", "o", "t", "e", "d", "-", "k", "e", "y">>), NumericLiteral)>>)

\* fetch('/api/comments', { method: 'post', body: JSON.stringify({ text: 'x', ... }) })
CsFetchPostMixedLiteral ==
    CallExpression(Identifier(<<"f", "e", "t", "c", "h">>),
                   <<StringLiteral(<<"/", "a", "p", "i", "/", "c", "o", "m", "m", "e", "n", "t", "s">>),
                     ObjectExpression(<<
                        ObjectProperty(Identifier(<<"m", "e", "t", "h", "o", "d">>), StringLiteral(<<"p", "o", "s", "t">>)),
                        ObjectProperty(Identifier(<<"b", "o", "d", "y">>),
                            CallExpression(
                                MemberExpression(Identifier(<<"J", "S", "O", "N">>), Identifier(<<"s", "t", "r", "i", "n", "g", "i", "f", "y">>)),
                                <<MixedLiteral>>, NoScope))>>)>>,
                   NoScope)

SchemaCallSites ==
    {CsPostWidgetsPayload, CsPutShadowedPayload, CsPatchParameterPayload,
     CsPostUndeclared, CsPostTwoHops, CsFetchPostCallInit, CsFetchPatchPayload,
     CsFetchPostUnwrappedBody, CsDeleteWithLiteral, CsFetchGetWithBody,
     CsFetchPostMixedLiteral}

SchemaVisits == {Visitor(node, file) : node \in SchemaCallSites, file \in FileNames}

\* analyzeFrontend over files whose call expressions are those of SchemaCallSites
NextSchemas ==
    \/ Throw
    \/ Glob
    \/ ReadFails
    \/ ParseFails
    \/ Parse
    \/ \E visit \in SchemaVisits : VisitCallExpression(visit)
    \/ EndTraverse
    \/ Return

SpecSchemas == Init /\ [][NextSchemas]_vars

----------------------------------------------------------------------------
(* Vocabulary of the request-body properties: the payload expression of a  *)
(* call and the declaration a payload identifier refers to.                *)

BodyProperties(node) ==
    LET props == node.arguments[2].properties
    IN  {k \in 1..Len(props) :
            /\ props[k].type = "ObjectProperty"
            /\ props[k].key.type = "Identifier"
            /\ props[k].key.name = <<"b", "o", "d", "y">>}

\* the value of the body property of the options record
BodyValue(node) ==
    LET hits == BodyProperties(node)
    IN  node.arguments[2].properties[CHOOSE k \in hits : \A m \in hits : k <= m].value

\* the payload expression of a call, nullable: the second positional
\* argument of a client-method call, the single argument of the
\* JSON.stringify call in the body property of a direct-request call
PayloadOf(node) ==
    IF IsClientMethodCall(node) THEN Argument(node, 1)
    ELSE IF /\ IsDirectRequest(node)
            /\ HasOptionsRecord(node)
            /\ BodyProperties(node) # {}
            /\ isJSONStringifyCall(BodyValue(node))
         THEN Argument(BodyValue(node), 0)
    ELSE Null

HasIdentifierPayload(node) ==
    ~IsNull(PayloadOf(node)) /\ PayloadOf(node)[1].type = "Identifier"

\* the positions in the scope chain, nearest first, that declare the name
DeclarationsOf(node, name) == {k \in 1..Len(node.scope) : node.scope[k].name = name}

NearestDeclaration(node, name) ==
    node.scope[CHOOSE k \in DeclarationsOf(node, name) :
                  \A m \in DeclarationsOf(node, name) : k <= m]

\* the nearest declaration of the name is a variable declaration whose
\* initializer is an object literal
ResolvesToLiteral(node, name) ==
    /\ DeclarationsOf(node, name) # {}
    /\ NearestDeclaration(node, name).node.type = "VariableDeclarator"
    /\ ~IsNull(NearestDeclaration(node, name).node.init)
    /\ NearestDeclaration(node, name).node.init[1].type = "ObjectExpression"

LiteralOf(node, name) == NearestDeclaration(node, name).node.init[1]

\* the call is given one of the methods that carry a body
IsMutatingVisit(visit) ==
    visit.recognized /\ visit.locals.method \in {<<"P", "O", "S", "T">>, <<"P", "U", "T">>, <<"P", "A", "T", "C", "H">>}

----------------------------------------------------------------------------
(* C16: when the payload of a POST, PUT or PATCH call is a bare identifier *)
(* whose nearest enclosing declaration is a variable declaration with an   *)
(* object-literal initializer, the requestBody fields of the descriptor    *)
(* are exactly the fields extracted from that literal; const payload =     *)
(* { id: 1, active: true } and client.post('/api/widgets', payload) give   *)
(* id: Number and active: Boolean.                                         *)

\* stated of the call site visited last: every visit is the last one in the
\* state that follows it
C16_OneHopResolution ==
    visited # <<>> =>
        LET i == Len(visited)
            node == visited[i].node
        IN
        /\ (/\ IsMutatingVisit(visited[i])
            /\ AdmittedAt(i)
            /\ HasIdentifierPayload(node)
            /\ ResolvesToLiteral(node, PayloadOf(node)[1].name))
           => DescriptorAt(i).requestBody
                 = Some([fields |->
                      extractObjectSchema(LiteralOf(node, PayloadOf(node)[1].name))[1]])
        /\ node = CsPostWidgetsPayload
           => DescriptorAt(i).requestBody
                 = Some([fields |-> <<[name |-> <<"i", "d">>, type |-> <<"N", "u", "m", "b", "e", "r">>],
                                      [name |-> <<"a", "c", "t", "i", "v", "e">>, type |-> <<"B", "o", "o", "l", "e", "a", "n">>]>>])

\* the payload of client.post('/api/widgets', payload) was resolved to
\* { id: 1, active: true }, that of the call inside the function to the inner
\* declaration { name: 'x' }, and that of the fetch call through
\* JSON.stringify(body)
C16_Witness ==
    /\ Len(visited) = 3
    /\ visited[1].node = CsPostWidgetsPayload
    /\ visited[2].node = CsPutShadowedPayload
    /\ visited[3].node = CsFetchPatchPayload
    /\ Len(endpoints) = 3
    /\ endpoints[1].value.requestBody
          = Some([fields |-> <<[name |-> <<"i", "d">>, type |-> <<"N", "u", "m", "b", "e", "r">>],
                               [name |-> <<"a", "c", "t", "i", "v", "e">>, type |-> <<"B", "o", "o", "l", "e", "a", "n">>]>>])
    /\ endpoints[2].value.requestBody
          = Some([fields |-> <<[name |-> <<"n", "a", "m", "e">>, type |-> <<"S", "t", "r", "i", "n", "g">>]>>])
    /\ endpoints[3].value.requestBody = endpoints[2].value.requestBody
    /\ schemaFields = Some(<<[name |-> <<"n", "a", "m", "e">>, type |-> <<"S", "t", "r", "i", "n", "g">>]>>)

----------------------------------------------------------------------------
(* C17: resolution goes one level deep and a miss is not an error: when    *)
(* the payload identifier of a POST, PUT or PATCH call has no declaration  *)
(* in scope, or its nearest declaration has no object-literal initializer  *)
(* (an initializer that is another identifier bound to an object literal   *)
(* included), no schema is produced, the descriptor is still emitted with  *)
(* requestBody unset and its other fields filled, and the traversal goes   *)
(* on with the remaining call sites.                                       *)

IsResolutionMiss(visit) ==
    /\ IsMutatingVisit(visit)
    /\ HasIdentifierPayload(visit.node)
    /\ ~ResolvesToLiteral(visit.node, PayloadOf(visit.node)[1].name)

\* every field of the descriptor but requestBody carries what the call gives
OtherFieldsFilled(e, visit) ==
    /\ e.path = extractApiPath(ResolvedUrl(visit.node))[1]
    /\ e.route = normalizeRouteForBackend(PathOnly(e.path))
    /\ e.method = visit.locals.method
    /\ e.controllerName # <<>>
    /\ e.actionName # <<>>
    /\ e.pathParams \in Seq(Seq(WordChars))
    /\ e.queryParams = <<>>
    /\ e.sourceFile = normalizeSlashes(visit.file)

\* the map holds the descriptor of the i-th visit, or the one of an earlier
\* visit with the same method and route
EmittedAt(i) ==
    \E k \in 1..Len(endpoints) :
        \/ endpoints[k].value = DescriptorAt(i)
        \/ /\ PairOf(endpoints[k].value) = PairAt(i)
           /\ \E j \in 1..(i - 1) : AdmittedAt(j) /\ PairAt(j) = PairAt(i)

MissYieldsBodilessDescriptor ==
    (visited # <<>> /\ IsResolutionMiss(LastVisited)) =>
        /\ schemaFields = Null
        /\ pc # "threw"
        /\ ~IsRejected(LastVisited.node) =>
              /\ AdmittedAt(Len(visited))
              /\ DescriptorAt(Len(visited)).requestBody = Null
              /\ DescriptorAt(Len(visited)).schemaFields = Null
              /\ OtherFieldsFilled(DescriptorAt(Len(visited)), LastVisited)
              /\ EmittedAt(Len(visited))

\* the step that visits a miss leaves the traversal of the file going
MissLeavesTraversalGoing ==
    (visited' # visited /\ IsResolutionMiss(visited'[Len(visited')]))
        => pc' = "traverse"

C17_ResolutionMissIsNotAnError ==
    [](MissYieldsBodilessDescriptor) /\ [][MissLeavesTraversalGoing]_vars

\* an alias of a declared literal, then an undeclared identifier, were given
\* descriptors without requestBody; the call visited after them was resolved
\* and the three descriptors were returned
C17_Witness ==
    /\ pc = "returned"
    /\ Len(visited) = 3
    /\ visited[1].node = CsPostTwoHops
    /\ visited[2].node = CsPostUndeclared
    /\ visited[3].node = CsPostWidgetsPayload
    /\ IsResolutionMiss(visited[1])
    /\ IsResolutionMiss(visited[2])
    /\ Len(result[1]) = 3
    /\ result[1][1].requestBody = Null
    /\ result[1][1].actionName = <<"p", "o", "s", "t", "T", "a", "g", "s">>
    /\ result[1][2].requestBody = Null
    /\ result[1][2].route = <<"/", "a", "p", "i", "/", "n", "o", "t", "e", "s">>
    /\ result[1][3].requestBody # Null

----------------------------------------------------------------------------
(* C18: in every emitted descriptor requestBody is set only if the method  *)
(* is POST, PUT or PATCH and the payload of the call is an object literal  *)
(* or an identifier resolving in one hop to an object literal; a           *)
(* descriptor whose method is GET or DELETE has requestBody unset, even    *)
(* when the call passes an object literal.                                 *)

HasResolvablePayload(node) ==
    /\ ~IsNull(PayloadOf(node))
    /\ \/ PayloadOf(node)[1].type = "ObjectExpression"
       \/ /\ PayloadOf(node)[1].type = "Identifier"
          /\ ResolvesToLiteral(node, PayloadOf(node)[1].name)

C18_RequestBodyOnlyForMutating ==
    /\ (visited # <<>> /\ AdmittedAt(Len(visited))) =>
          LET e == DescriptorAt(Len(visited)) IN
          /\ ~IsNull(e.requestBody) =>
                /\ e.method \in {<<"P", "O", "S", "T">>, <<"P", "U", "T">>, <<"P", "A", "T", "C", "H">>}
                /\ HasResolvablePayload(LastVisited.node)
          /\ e.method \in {<<"G", "E", "T">>, <<"D", "E", "L", "E", "T", "E">>} => IsNull(e.requestBody)
    /\ \A k \in 1..Len(endpoints) :
          /\ ~IsNull(endpoints[k].value.requestBody) =>
                endpoints[k].value.method \in {<<"P", "O", "S", "T">>, <<"P", "U", "T">>, <<"P", "A", "T", "C", "H">>}
          /\ \E i \in AdmittedIndexes : endpoints[k].value = DescriptorAt(i)

\* a DELETE call passing an object literal and a GET fetch with a serialized
\* body were given no requestBody, a POST fetch with a serialized literal was
\* given one
C18_Witness ==
    /\ Len(visited) = 3
    /\ visited[1].node = CsDeleteWithLiteral
    /\ visited[2].node = CsFetchGetWithBody
    /\ visited[3].node = CsFetchPostMixedLiteral
    /\ Len(endpoints) = 3
    /\ endpoints[1].value.method = <<"D", "E", "L", "E", "T", "E">>
    /\ endpoints[1].value.requestBody = Null
    /\ endpoints[2].value.method = <<"G", "E", "T">>
    /\ endpoints[2].value.requestBody = Null
    /\ endpoints[3].value.method = <<"P", "O", "S", "T">>
    /\ endpoints[3].value.requestBody # Null

----------------------------------------------------------------------------
(* C19: every field type of an extracted schema is one of String, Number,  *)
(* Boolean: a property whose value is a string literal is String, a        *)
(* numeric literal Number, a boolean literal Boolean, and any other value  *)
(* (null, nested object, array, call expression, identifier) String.       *)

FieldTypes == {<<"S", "t", "r", "i", "n", "g">>, <<"N", "u", "m", "b", "e", "r">>, <<"B", "o", "o", "l", "e", "a", "n">>}

ExpectedType(value) ==
    IF value.type = "StringLiteral" THEN <<"S", "t", "r", "i", "n", "g">>
    ELSE IF value.type = "NumericLiteral" THEN <<"N", "u", "m", "b", "e", "r">>
    ELSE IF value.type = "BooleanLiteral" THEN <<"B", "o", "o", "l", "e", "a", "n">>
    ELSE <<"S", "t", "r", "i", "n", "g">>

\* the object literal the schema of a call with a resolvable payload is
\* extracted from
PayloadLiteral(node) ==
    IF PayloadOf(node)[1].type = "ObjectExpression" THEN PayloadOf(node)[1]
    ELSE LiteralOf(node, PayloadOf(node)[1].name)

\* the properties of a literal that have a name: key: value pairs whose key
\* is an identifier or a string literal
NamedProperties(literal) ==
    {k \in 1..Len(literal.properties) :
        /\ literal.properties[k].type = "ObjectProperty"
        /\ literal.properties[k].key.type \in {"Identifier", "StringLiteral"}}

KeyName(prop) ==
    IF prop.key.type = "Identifier" THEN prop.key.name ELSE prop.key.value

C19_FieldTypes ==
    (visited # <<>> /\ ~IsNull(schemaFields)) =>
        LET fields == schemaFields[1]
            literal == PayloadLiteral(LastVisited.node)
            props == literal.properties
        IN  /\ \A f \in 1..Len(fields) :
                  /\ fields[f].type \in FieldTypes
                  /\ \E k \in NamedProperties(literal) :
                        KeyName(props[k]) = fields[f].name
            /\ \A k \in NamedProperties(literal) :
                  (\A m \in NamedProperties(literal) :
                      KeyName(props[m]) = KeyName(props[k]) => m <= k)
                  => \E f \in 1..Len(fields) :
                        /\ fields[f].name = KeyName(props[k])
                        /\ fields[f].type = ExpectedType(props[k].value)

\* the literal with a string, a number, a boolean, null, a nested object, an
\* array, a call and an identifier as values was given the nine fields of
\* its named properties
C19_Witness ==
    /\ visited # <<>>
    /\ LastVisited.node = CsFetchPostMixedLiteral
    /\ schemaFields =
          Some(<<[name |-> <<"t", "e", "x", "t">>, type |-> <<"S", "t", "r", "i", "n", "g">>],
                 [name |-> <<"n">>, type |-> <<"N", "u", "m", "b", "e", "r">>],
                 [name |-> <<"o", "k">>, type |-> <<"B", "o", "o", "l", "e", "a", "n">>],
                 [name |-> <<"n", "i", "l">>, type |-> <<"S", "t", "r", "i", "n", "g">>],
                 [name |-> <<"n", "e", "s", "t", "e", "d">>, type |-> <<"S", "t", "r", "i", "n", "g">>],
                 [name |-> <<"l", "i", "s", "t">>, type |-> <<"S", "t", "r", "i", "n", "g">>],
                 [name |-> <<"a", "t">>, type |-> <<"S", "t", "r", "i", "n", "g">>],
                 [name |-> <<"r", "e", "f">>, type |-> <<"S", "t", "r", "i", "n", "g">>],
                 [name |-> <<"q", "u", "o", "t", "e", "d", "-", "k", "e", "y">>, type |-> <<"N", "u", "m", "b", "e", "r">>]>>)
    /\ endpoints[Len(endpoints)].value.requestBody = Some([fields |-> schemaFields[1]])

----------------------------------------------------------------------------
(* analyzeFrontend over a directory whose files are fixed: what readFile   *)
(* and parser.parse do with a file, and the call expressions traverse      *)
(* finds in it, are decided by the file, and glob decides which files      *)
(* are analysed and in which order.                                        *)

\* The files of the directory: whether readFile resolves, whether
\* parser.parse returns, and the call expressions written in the file
FilesOnDisk ==
    {[name |-> <<"s", "/", "a", ".", "j", "s">>, readable |-> TRUE, parses |-> TRUE,
      calls |-> <<CsFetchUsers, CsPostProducts>>],
     [name |-> <<"s", "/", "b", ".", "t", "s">>, readable |-> TRUE, parses |-> FALSE,
      calls |-> <<CsAxiosGetUsersQuery, CsPostOrders>>],
     [name |-> <<"s", "/", "c", ".", "j", "s", "x">>, readable |-> TRUE, parses |-> TRUE,
      calls |-> <<CsAxiosGetUsersQuery>>],
     [name |-> <<"s", "/", "d", ".", "t", "s", "x">>, readable |-> FALSE, parses |-> TRUE,
      calls |-> <<CsPostOrders>>],
     [name |-> <<"s", "/", "e", ".", "j", "s">>, readable |-> TRUE, parses |-> TRUE,
      calls |-> <<CsFetchLogo, CsTemplateUserId>>],
     [name |-> <<"s", "/", "f", ".", "t", "s">>, readable |-> TRUE, parses |-> FALSE,
      calls |-> <<>>]}

FileOnDisk(name) == CHOOSE f \in FilesOnDisk : f.name = name

DiskNames == {f.name : f \in FilesOnDisk}

\* the number of call expressions traverse visits in the files of fs
RECURSIVE CallsToVisit(_, _)
CallsToVisit(fs, n) ==
    IF n = 0 THEN 0
    ELSE CallsToVisit(fs, n - 1)
         + (IF FileOnDisk(fs[n]).readable /\ FileOnDisk(fs[n]).parses
            THEN Len(FileOnDisk(fs[n]).calls)
            ELSE 0)

\* The arrays glob may resolve to: any of the files, in any order, as long
\* as the run visits no more than MaxCalls call expressions
DiskGlobResults ==
    {fs \in UNION {[1..n -> DiskNames] : n \in 0..Cardinality(DiskNames)} :
        /\ \A i, j \in 1..Len(fs) : i # j => fs[i] # fs[j]
        /\ CallsToVisit(fs, Len(fs)) <= MaxCalls}

\* the call expressions of the current file visited so far
VisitedOfCurrentFile ==
    Cardinality({i \in 1..Len(visited) : visited[i].file = files[fileIdx]})

\* a variant of GlobDisk that does not look whether the directory exists
GlobDiskUnchecked ==
    /\ pc = "start"
    /\ ~IsNull(srcPath)
    /\ files' \in DiskGlobResults
    /\ fileIdx' = 1
    /\ endpoints' = <<>>
    /\ pc' = "loop"
    /\ UNCHANGED hostVars
    /\ UNCHANGED <<srcPath, srcExists, visited, urlValue, method, schemaFields, result>>

\* lines 287-291 over the directory
GlobDisk ==
    /\ pc = "start"
    /\ ~IsNull(srcPath) /\ srcExists
    /\ files' \in DiskGlobResults
    /\ fileIdx' = 1
    /\ endpoints' = <<>>
    /\ pc' = "loop"
    /\ UNCHANGED hostVars
    /\ UNCHANGED <<srcPath, srcExists, visited, urlValue, method, schemaFields, result>>

\* lines 295-299 for a file readFile rejects
ReadFailsOnDisk ==
    /\ pc = "loop"
    /\ fileIdx <= Len(files)
    /\ ~FileOnDisk(files[fileIdx]).readable
    /\ ReadFails

\* lines 301-306 for a file parser.parse throws on
ParseFailsOnDisk ==
    /\ pc = "loop"
    /\ fileIdx <= Len(files)
    /\ FileOnDisk(files[fileIdx]).readable
    /\ ~FileOnDisk(files[fileIdx]).parses
    /\ ParseFails

\* lines 294-308 for a file that is read and parsed
ParseOnDisk ==
    /\ pc = "loop"
    /\ fileIdx <= Len(files)
    /\ FileOnDisk(files[fileIdx]).readable
    /\ FileOnDisk(files[fileIdx]).parses
    /\ Parse

\* lines 309-402: traverse calls the visitor on the next call expression of
\* the file
VisitNextOnDisk ==
    /\ pc = "traverse"
    /\ VisitedOfCurrentFile < Len(FileOnDisk(files[fileIdx]).calls)
    /\ VisitCallExpression(
          Visitor(FileOnDisk(files[fileIdx]).calls[VisitedOfCurrentFile + 1],
                  files[fileIdx]))

\* line 403: traverse returns once every call expression has been visited
EndTraverseOnDisk ==
    /\ pc = "traverse"
    /\ VisitedOfCurrentFile = Len(FileOnDisk(files[fileIdx]).calls)
    /\ EndTraverse

NextDisk ==
    \/ Throw
    \/ GlobDisk
    \/ ReadFailsOnDisk
    \/ ParseFailsOnDisk
    \/ ParseOnDisk
    \/ VisitNextOnDisk
    \/ EndTraverseOnDisk
    \/ Return

SpecDisk == Init /\ [][NextDisk]_vars

----------------------------------------------------------------------------
(* C20: a file that fails to parse contributes zero endpoints and does not *)
(* abort the run: the returned list equals the list produced from the same *)
(* files in the same order with the unparsable files removed.              *)

\* the file is read and the parser throws on it
IsUnparsable(name) == FileOnDisk(name).readable /\ ~FileOnDisk(name).parses

KeepsParsable(name) == ~IsUnparsable(name)

WithoutUnparsable(fs) == SelectSeq(fs, KeepsParsable)

\* the map after the first n call expressions of a file that parses
RECURSIVE MapAfterCalls(_, _, _, _)
MapAfterCalls(map, file, calls, n) ==
    IF n = 0 THEN map
    ELSE Aggregate(MapAfterCalls(map, file, calls, n - 1), Visitor(calls[n], file))

\* the map after the first n files of fs, none of which fails to parse
RECURSIVE MapAfterFiles(_, _)
MapAfterFiles(fs, n) ==
    IF n = 0 THEN <<>>
    ELSE IF FileOnDisk(fs[n]).readable
         THEN MapAfterCalls(MapAfterFiles(fs, n - 1), fs[n],
                            FileOnDisk(fs[n]).calls, Len(FileOnDisk(fs[n]).calls))
         ELSE MapAfterFiles(fs, n - 1)

\* the list produced from files none of which fails to parse
ListProducedFrom(fs) == MapValues(MapAfterFiles(fs, Len(fs)))

C20_ParseFailureTolerance ==
    /\ pc = "returned" =>
          result = Some(ListProducedFrom(WithoutUnparsable(files)))
    /\ pc = "threw" => files = <<>> /\ visited = <<>>
    /\ \A i \in 1..Len(visited) : ~IsUnparsable(visited[i].file)

\* s/b.ts, which does not parse, came between s/a.js and s/c.jsx: the run
\* returned the two descriptors of s/a.js, none of them from s/b.ts
C20_Witness ==
    /\ pc = "returned"
    /\ files = <<<<"s", "/", "a", ".", "j", "s">>, <<"s", "/", "b", ".", "t", "s">>, <<"s", "/", "c", ".", "j", "s", "x">>>>
    /\ Len(visited) = 3
    /\ Len(result[1]) = 2
    /\ result[1][1].sourceFile = <<"s", "/", "a", ".", "j", "s">>
    /\ result[1][1].route = <<"/", "a", "p", "i", "/", "u", "s", "e", "r", "s">>
    /\ result[1][2].actionName = <<"p", "o", "s", "t", "P", "r", "o", "d", "u", "c", "t", "s">>
    /\ result[1] = ListProducedFrom(<<<<"s", "/", "a", ".", "j", "s">>, <<"s", "/", "c", ".", "j", "s", "x">>>>)
    /\ result[1] # ListProducedFrom(<<<<"s", "/", "a", ".", "j", "s">>, <<"s", "/", "b", ".", "t", "s">>, <<"s", "/", "c", ".", "j", "s", "x">>>>)

----------------------------------------------------------------------------
(* C21: when the root directory does not exist, analyzeFrontend fails with *)
(* an error before any file is discovered, read or parsed, and returns no  *)
(* endpoint list.                                                          *)

RootIsMissing == ~IsNull(srcPath) /\ ~srcExists

NothingDoneWithoutRoot ==
    RootIsMissing =>
        /\ pc \in {"start", "threw"}
        /\ files = <<>>
        /\ fileIdx = 1
        /\ visited = <<>>
        /\ endpoints = <<>>
        /\ result = Null

\* the only step of a run on a missing root is the throw
MissingRootThrows == RootIsMissing => (pc = "start" /\ pc' = "threw")

C21_DirectoryNotFound ==
    [](NothingDoneWithoutRoot) /\ [][MissingRootThrows]_vars

\* the run on a named directory that does not exist has thrown
C21_Witness ==
    /\ RootIsMissing
    /\ pc = "threw"
    /\ result = Null

----------------------------------------------------------------------------
(* Vocabulary of the properties about the order of discovery: the arrays   *)
(* glob may resolve to for the same set of files, and the lexicographic    *)
(* order of the file paths.                                                *)

\* two arrays of the same files
SameFiles(fs, gs) == Range(fs) = Range(gs) /\ Len(fs) = Len(gs)

\* the list a run returns when glob resolves to fs
ListReturnedFor(fs) == ListProducedFrom(WithoutUnparsable(fs))

\* the characters of the file paths, by code point
PathAlphabet ==
    <<".", "/", "a", "b", "c", "d", "e", "f", "j", "s", "t", "x">>

CodeRank(c) == CHOOSE k \in 1..Len(PathAlphabet) : PathAlphabet[k] = c

\* a precedes b in the lexicographic order of the paths
PathBefore(a, b) ==
    \E k \in 1..(Len(a) + 1) :
        /\ \A m \in 1..(k - 1) : m <= Len(b) /\ a[m] = b[m]
        /\ \/ k = Len(a) + 1 /\ Len(b) >= k
           \/ k <= Len(a) /\ k <= Len(b) /\ CodeRank(a[k]) < CodeRank(b[k])

\* the files of fs in lexicographic order of their paths
SortedByPath(fs) ==
    CHOOSE gs \in DiskGlobResults :
        /\ SameFiles(fs, gs)
        /\ \A i, j \in 1..Len(gs) : i < j => PathBefore(gs[i], gs[j])

----------------------------------------------------------------------------
(* C22: running the analyzer twice over the same unchanged set of files    *)
(* yields the identical ordered list of descriptors, with the same fields  *)
(* in each descriptor: the list a run returns is the list every run over   *)
(* the same files returns.                                                 *)

C22_Idempotence ==
    pc = "returned" =>
        \A gs \in DiskGlobResults :
            SameFiles(files, gs) => result = Some(ListReturnedFor(gs))

----------------------------------------------------------------------------
(* C23: whatever order file discovery returns the files in, they are       *)
(* folded into the map in lexicographic order of their paths, so that the  *)
(* descriptor kept for a key shared by call sites of two files does not    *)
(* depend on the discovery order.                                          *)

C23_DeterministicFileOrder ==
    /\ pc = "returned" => result = Some(ListReturnedFor(SortedByPath(files)))
    /\ \A i, j \in 1..Len(visited) :
          i < j => ~PathBefore(visited[j].file, visited[i].file)

----------------------------------------------------------------------------
(* A universe of call sites whose URLs carry a prefix before /api/ or a    *)
(* literal identifier after it.                                            *)

\* fetch('/api/products/123', { method: 'PUT' })
CsFetchPutProduct ==
    CallExpression(Identifier(<<"f", "e", "t", "c", "h">>),
                   <<StringLiteral(<<"/", "a", "p", "i", "/", "p", "r", "o", "d", "u", "c", "t", "s", "/", "1", "2", "3">>),
                     ObjectExpression(<<
                        ObjectProperty(Identifier(<<"m", "e", "t", "h", "o", "d">>), StringLiteral(<<"P", "U", "T">>))>>)>>,
                   NoScope)

\* fetch('https://x.io/api/users')
CsFetchUsersHost ==
    CallExpression(Identifier(<<"f", "e", "t", "c", "h">>), <<StringLiteral(<<"h", "t", "t", "p", "s", ":", "/", "/", "x", ".", "i", "o", "/", "a", "p", "i", "/", "u", "s", "e", "r", "s">>)>>,
                   NoScope)

\* axios.get(`${BASE}/api/users`)
CsGetUsersBase ==
    CallExpression(MemberExpression(Identifier(<<"a", "x", "i", "o", "s">>), Identifier(<<"g", "e", "t">>)),
                   <<TemplateLiteral(<<<<>>, <<"/", "a", "p", "i", "/", "u", "s", "e", "r", "s">>>>, <<Identifier(<<"B", "A", "S", "E">>)>>)>>,
                   NoScope)

\* axios.post('http://h/api/users')
CsPostUsersHost ==
    CallExpression(MemberExpression(Identifier(<<"a", "x", "i", "o", "s">>), Identifier(<<"p", "o", "s", "t">>)),
                   <<StringLiteral(<<"h", "t", "t", "p", ":", "/", "/", "h", "/", "a", "p", "i", "/", "u", "s", "e", "r", "s">>)>>, NoScope)

\* fetch('/v1/api/a/api/b')
CsFetchTwoApiSegments ==
    CallExpression(Identifier(<<"f", "e", "t", "c", "h">>), <<StringLiteral(<<"/", "v", "1", "/", "a", "p", "i", "/", "a", "/", "a", "p", "i", "/", "b">>)>>, NoScope)

PrefixCallSites ==
    {CsFetchPutProduct, CsFetchUsers, CsFetchUsersHost, CsGetUsersBase,
     CsPostUsersHost, CsFetchTwoApiSegments, CsFetchLogo}

PrefixVisits == {Visitor(node, file) : node \in PrefixCallSites, file \in FileNames}

\* analyzeFrontend over files whose call expressions are those of PrefixCallSites
NextPrefixes ==
    \/ Throw
    \/ Glob
    \/ ReadFails
    \/ ParseFails
    \/ Parse
    \/ \E visit \in PrefixVisits : VisitCallExpression(visit)
    \/ EndTraverse
    \/ Return

SpecPrefixes == Init /\ [][NextPrefixes]_vars

----------------------------------------------------------------------------
(* C24: for the call fetch('/api/products/123', { method: 'PUT' }) the     *)
(* analysis yields an endpoint with controller Products and method PUT     *)
(* whose route is products/:id: the literal numeric segment of the URL is  *)
(* turned into the route parameter :id.                                    *)

C24_NumericSegmentBecomesId ==
    \A i \in AdmittedIndexes :
        visited[i].node = CsFetchPutProduct =>
            /\ DescriptorAt(i).controllerName = <<"P", "r", "o", "d", "u", "c", "t", "s">>
            /\ DescriptorAt(i).method = <<"P", "U", "T">>
            /\ DescriptorAt(i).route \in {<<"/", "a", "p", "i", "/", "p", "r", "o", "d", "u", "c", "t", "s", "/", ":", "i", "d">>, <<"p", "r", "o", "d", "u", "c", "t", "s", "/", ":", "i", "d">>}

\* ---------------------------------------------------------------------
\* The interactive command line program: main of bin/index.js, lines 13-157
\* (interactiveMain of the later version has the same try and catch).
\* The generator it dispatches to calls analyzeFrontend first
\* (generators/node.js line 25, generators/dotnet.js line 14), so the
\* analyzer's actions over the files on disk run inside the generator.
\* ---------------------------------------------------------------------

\* lines 28-29: the choices of the stack prompt that are not disabled
StackChoices == {"node-ts-express", "dotnet-webapi"}

\* lines 13-119: the prompts are answered and options is built; the
\* project directory and the frontend directory may or may not exist
InitCli ==
    /\ srcPath = Some(<<"s">>)
    /\ srcExists \in BOOLEAN
    /\ pc = "start"
    /\ files = <<>>
    /\ fileIdx = 1
    /\ endpoints = <<>>
    /\ visited = <<>>
    /\ urlValue = Null
    /\ method = GET
    /\ schemaFields = Null
    /\ result = Null
    /\ cliPc = "prompted"
    /\ stack \in StackChoices
    /\ dotnetAvailable \in BOOLEAN
    /\ projectDirExists \in BOOLEAN
    /\ existedBefore = projectDirExists
    /\ successPrinted = FALSE
    /\ exitCode = Null
    /\ WatchIdle
    /\ TemplateIdle
    /\ PropertiesIdle

analyzerVars == <<srcPath, srcExists, pc, files, fileIdx, endpoints, visited,
                  urlValue, method, schemaFields, result>>

\* lines 124-126: case 'node-ts-express', generateNodeProject is called
DispatchNode ==
    /\ cliPc = "prompted"
    /\ stack = "node-ts-express"
    /\ cliPc' = "generating"
    /\ UNCHANGED <<stack, dotnetAvailable, projectDirExists, existedBefore,
                   successPrinted, exitCode>>
    /\ UNCHANGED <<analyzerVars, watchVars, tplVars, propsVars>>

\* lines 127-132: case 'dotnet-webapi' with the SDK installed
DispatchDotnet ==
    /\ cliPc = "prompted"
    /\ stack = "dotnet-webapi"
    /\ dotnetAvailable
    /\ cliPc' = "generating"
    /\ UNCHANGED <<stack, dotnetAvailable, projectDirExists, existedBefore,
                   successPrinted, exitCode>>
    /\ UNCHANGED <<analyzerVars, watchVars, tplVars, propsVars>>

\* lines 128-130: the dispatch throws, the SDK is not installed
DotnetMissing ==
    /\ cliPc = "prompted"
    /\ stack = "dotnet-webapi"
    /\ ~dotnetAvailable
    /\ cliPc' = "catch"
    /\ UNCHANGED <<stack, dotnetAvailable, projectDirExists, existedBefore,
                   successPrinted, exitCode>>
    /\ UNCHANGED <<analyzerVars, watchVars, tplVars, propsVars>>

\* generators/node.js line 25: analyzeFrontend runs inside the generator
AnalyzeFrontendStep ==
    /\ cliPc = "generating"
    /\ NextDisk

\* generators/node.js lines 25 and 371-373: analyzeFrontend threw, the
\* generator rethrows to main
AnalysisThrew ==
    /\ cliPc = "generating"
    /\ pc = "threw"
    /\ cliPc' = "catch"
    /\ UNCHANGED <<stack, dotnetAvailable, projectDirExists, existedBefore,
                   successPrinted, exitCode>>
    /\ UNCHANGED <<analyzerVars, watchVars, tplVars, propsVars>>

\* generators/node.js lines 76-79: the project directory is created
Scaffold ==
    /\ cliPc = "generating"
    /\ pc = "returned"
    /\ projectDirExists' = TRUE
    /\ cliPc' = "scaffolded"
    /\ UNCHANGED <<stack, dotnetAvailable, existedBefore, successPrinted, exitCode>>
    /\ UNCHANGED <<analyzerVars, watchVars, tplVars, propsVars>>

\* generators/node.js lines 351 and 371-373: a later step rejects
\* (npm install fails), the generator rethrows to main
GeneratorFails ==
    /\ cliPc = "scaffolded"
    /\ cliPc' = "catch"
    /\ UNCHANGED <<stack, dotnetAvailable, projectDirExists, existedBefore,
                   successPrinted, exitCode>>
    /\ UNCHANGED <<analyzerVars, watchVars, tplVars, propsVars>>

\* lines 142-145: the generator resolved, the success message is logged
GeneratorCompletes ==
    /\ cliPc = "scaffolded"
    /\ successPrinted' = TRUE
    /\ cliPc' = "complete"
    /\ UNCHANGED <<stack, dotnetAvailable, projectDirExists, existedBefore, exitCode>>
    /\ UNCHANGED <<analyzerVars, watchVars, tplVars, propsVars>>

\* a variant of Catch that leaves the project directory in place
CatchKeepsDirectory ==
    /\ cliPc = "catch"
    /\ exitCode' = Some(1)
    /\ cliPc' = "exited"
    /\ UNCHANGED <<stack, dotnetAvailable, projectDirExists, existedBefore,
                   successPrinted>>
    /\ UNCHANGED <<analyzerVars, watchVars, tplVars, propsVars>>

\* lines 147-156: the catch block: removeSync when existsSync, then exit(1)
Catch ==
    /\ cliPc = "catch"
    /\ projectDirExists' = (IF projectDirExists THEN FALSE ELSE projectDirExists)
    /\ exitCode' = Some(1)
    /\ cliPc' = "exited"
    /\ UNCHANGED <<stack, dotnetAvailable, existedBefore, successPrinted>>
    /\ UNCHANGED <<analyzerVars, watchVars, tplVars, propsVars>>

NextCli ==
    \/ DispatchNode
    \/ DispatchDotnet
    \/ DotnetMissing
    \/ AnalyzeFrontendStep
    \/ AnalysisThrew
    \/ Scaffold
    \/ GeneratorFails
    \/ GeneratorCompletes
    \/ Catch

SpecCli == InitCli /\ [][NextCli]_vars

\* What the claims about the command line program speak of
GenerationFailed == cliPc \in {"catch", "exited"}

\* C25: in interactive mode a failure of the generator or of the stack
\* dispatch is followed by the removal of the project directory, if there is
\* one, and by exit code 1; the success message is logged only when the
\* generator completed without an error.
FailureIsCleanedUp ==
    cliPc = "exited" => /\ exitCode = Some(1)
                        /\ ~projectDirExists
                        /\ ~successPrinted

SuccessOnlyWhenComplete ==
    successPrinted => /\ cliPc = "complete"
                      /\ pc = "returned"
                      /\ exitCode = Null

FailureGoesToExit ==
    cliPc = "catch" => /\ cliPc' = "exited"
                       /\ exitCode' = Some(1)
                       /\ ~projectDirExists'

C25_FailureCleanupAndExit ==
    /\ [](FailureIsCleanedUp /\ SuccessOnlyWhenComplete)
    /\ [][FailureGoesToExit]_vars

C25_Witness ==
    /\ cliPc = "exited"
    /\ pc = "returned"
    /\ exitCode = Some(1)
    /\ ~projectDirExists

\* C26: a project directory that existed before generation started is never
\* deleted, also not when generation fails because the frontend source
\* directory does not exist.
C26_ExistingDirectoryKept == existedBefore => projectDirExists

\* ---------------------------------------------------------------------
\* The watch command: the later version of bin/index.js, lines 195-213,
\* with run (lines 204-208) awaiting scanFrontend and then runGeneration
\* (lines 33-63), which writes the backend directory.
\* ---------------------------------------------------------------------

\* the analyzer's variables while a program that does not call it runs
AnalyzerNotRunning ==
    /\ srcPath = Null
    /\ srcExists = FALSE
    /\ pc = "start"
    /\ files = <<>>
    /\ fileIdx = 1
    /\ endpoints = <<>>
    /\ visited = <<>>
    /\ urlValue = Null
    /\ method = GET
    /\ schemaFields = Null
    /\ result = Null

\* line 211: the events run is registered for
WatchEvents == {"add", "change", "unlink"}

\* lines 204-208: a call of run, suspended at its first await
NewRun(trigger) == [trigger |-> trigger, phase |-> "scanning"]

\* the sequence without its i-th element
RemoveAt(seq, i) == SubSeq(seq, 1, i - 1) \o SubSeq(seq, i + 1, Len(seq))

\* lines 200-210: the watcher is created and run is called and awaited,
\* before any handler is registered
InitWatch ==
    /\ AnalyzerNotRunning
    /\ CliIdle
    /\ TemplateIdle
    /\ PropertiesIdle
    /\ watchPc = "initial"
    /\ runs = <<NewRun("initial")>>
    /\ eventsSeen = 0
    /\ regenerated = 0

\* line 205: scanFrontend resolves, run goes on to await runGeneration
ScanResolves(i) ==
    /\ watchPc \in {"initial", "watching"}
    /\ runs[i].phase = "scanning"
    /\ runs' = [runs EXCEPT ![i].phase = "generating"]
    /\ UNCHANGED <<watchPc, eventsSeen, regenerated>>
    /\ UNCHANGED <<analyzerVars, cliVars, tplVars, propsVars>>

\* lines 206-207 and 210-212: runGeneration resolves and the line is
\* logged; after the first run the three handlers are registered
GenerationResolves(i) ==
    /\ watchPc \in {"initial", "watching"}
    /\ runs[i].phase = "generating"
    /\ runs' = RemoveAt(runs, i)
    /\ regenerated' = regenerated + 1
    /\ watchPc' = "watching"
    /\ UNCHANGED eventsSeen
    /\ UNCHANGED <<analyzerVars, cliVars, tplVars, propsVars>>

\* lines 205-206, 210 and 224-227: the first run rejects, the action
\* rejects and main's catch exits
InitialRunRejects ==
    /\ watchPc = "initial"
    /\ runs' = <<>>
    /\ watchPc' = "exited"
    /\ UNCHANGED <<eventsSeen, regenerated>>
    /\ UNCHANGED <<analyzerVars, cliVars, tplVars, propsVars>>

\* lines 202 and 210: an event during the first run finds no listener
FileEventUnheard(event) ==
    /\ watchPc = "initial"
    /\ eventsSeen < MaxEvents
    /\ eventsSeen' = eventsSeen + 1
    /\ UNCHANGED <<watchPc, runs, regenerated>>
    /\ UNCHANGED <<analyzerVars, cliVars, tplVars, propsVars>>

\* lines 204-205 and 211: an event calls run, which starts scanning
FileEvent(event) ==
    /\ watchPc = "watching"
    /\ eventsSeen < MaxEvents
    /\ eventsSeen' = eventsSeen + 1
    /\ runs' = Append(runs, NewRun(event))
    /\ UNCHANGED <<watchPc, regenerated>>
    /\ UNCHANGED <<analyzerVars, cliVars, tplVars, propsVars>>

NextWatch ==
    \/ \E i \in 1..Len(runs) : ScanResolves(i)
    \/ \E i \in 1..Len(runs) : GenerationResolves(i)
    \/ InitialRunRejects
    \/ \E event \in WatchEvents : FileEventUnheard(event)
    \/ \E event \in WatchEvents : FileEvent(event)

SpecWatch == InitWatch /\ [][NextWatch]_vars

\* C27: in watch mode at most one scan-and-regenerate run is in progress at
\* any time; an event that arrives during a run starts no second run that
\* writes the backend directory concurrently with the first.
C27_AtMostOneRun == Len(runs) <= 1

\* ---------------------------------------------------------------------
\* renderAndWrite of generators/template.js, lines 31-51.
\* An EJS template is a sequence of parts: literal text, or an escaped
\* output tag <%= name %>. The data is a record of strings (a missing
\* data argument is the empty record, line 36).
\* ---------------------------------------------------------------------

Text(chars) == [kind |-> "text", text |-> chars]

Output(name) == [kind |-> "output", name |-> name]

\* ejs escapeXML, which <%= %> applies to the value
EscapeChar(c) ==
    CASE c = "&" -> <<"&", "a", "m", "p", ";">>
      [] c = "<" -> <<"&", "l", "t", ";">>
      [] c = ">" -> <<"&", "g", "t", ";">>
      [] c = "\"" -> <<"&", "#", "3", "4", ";">>
      [] c = "'" -> <<"&", "#", "3", "9", ";">>
      [] OTHER -> <<c>>

RECURSIVE escapeXML(_)
escapeXML(s) ==
    IF s = <<>> THEN <<>> ELSE EscapeChar(Head(s)) \o escapeXML(Tail(s))

\* line 36: an output tag of a name the data does not have throws
RenderThrows(tpl, data) ==
    \E k \in 1..Len(tpl) :
        tpl[k].kind = "output" /\ tpl[k].name \notin DOMAIN data

\* line 36: ejs.render
RECURSIVE Render(_, _)
Render(tpl, data) ==
    IF tpl = <<>> THEN <<>>
    ELSE LET part == Head(tpl)
             here == IF part.kind = "text" THEN part.text
                     ELSE escapeXML(data[part.name])
         IN  here \o Render(Tail(tpl), data)

\* String.prototype.endsWith for a one-character suffix
endsWith(s, c) == s # <<>> /\ s[Len(s)] = c

\* line 45: what outputFile is given
WrittenContent(code) == IF endsWith(code, "\n") THEN code ELSE Append(code, "\n")

\* lines 31-51: the call on a file: whether it threw, whether it wrote,
\* and the file afterwards
renderAndWrite(file, tpl, data) ==
    IF RenderThrows(tpl, data)
    THEN [threw |-> TRUE, wrote |-> FALSE, after |-> file]
    ELSE LET code == Render(tpl, data)
         IN  IF ~IsNull(file) /\ file[1] = code
             THEN [threw |-> FALSE, wrote |-> FALSE, after |-> file]
             ELSE [threw |-> FALSE, wrote |-> TRUE,
                   after |-> Some(WrittenContent(code))]

\* the templates and the data of the calls
TplPortLine == <<Text(<<"p", "o", "r", "t", "=">>), Output("port"), Text(<<"\n">>)>>

TplPortBare == <<Text(<<"p", "o", "r", "t", "=">>), Output("port")>>

TplName == <<Output("name")>>

TplEmpty == <<>>

Templates == {TplPortLine, TplPortBare, TplName, TplEmpty}

DataPort == [port |-> <<"8">>]

DataPortName == [port |-> <<"9">>, name |-> <<"a", "<", "b", "\n">>]

DataSets == {Null, DataPort, DataPortName}

\* the file at outPath before the first call: none, or one with content
InitTemplate ==
    /\ AnalyzerNotRunning
    /\ CliIdle
    /\ WatchIdle
    /\ PropertiesIdle
    /\ outFile \in {Null, Some(<<"o", "l", "d">>), Some(<<"p", "o", "r", "t", "=", "8">>)}
    /\ renders = <<>>

\* lines 31-51: one call of renderAndWrite on the output path
CallRenderAndWrite(tpl, data) ==
    /\ Len(renders) < MaxRenders
    /\ LET call == renderAndWrite(outFile, tpl, data)
       IN  /\ outFile' = call.after
           /\ renders' = Append(renders, [template |-> tpl, data |-> data,
                                          threw |-> call.threw,
                                          wrote |-> call.wrote,
                                          after |-> call.after])
    /\ UNCHANGED <<analyzerVars, cliVars, watchVars, propsVars>>

NextTemplate ==
    \E tpl \in Templates, data \in DataSets : CallRenderAndWrite(tpl, data)

SpecTemplate == InitTemplate /\ [][NextTemplate]_vars

\* C28: when renderAndWrite is called twice with the same template, data
\* and output path and nothing else changes the file in between, the second
\* call does not write the file, and the file's content after the second
\* call is its content after the first.
C28_NoRewriteOfIdentical ==
    \A i \in 1..(Len(renders) - 1) :
        ( /\ renders[i + 1].template = renders[i].template
          /\ renders[i + 1].data = renders[i].data
          /\ ~renders[i].threw )
        => /\ ~renders[i + 1].wrote
           /\ renders[i + 1].after = renders[i].after

\* ---------------------------------------------------------------------
\* upsertApplicationProperties of the java generator (its source file is
\* the one that requires ./template and unzipper), lines 88-115, called
\* by generateJavaProject at line 215.
\* ---------------------------------------------------------------------

NewLine == <<"\n">>

\* line 92
StartMarker == <<"#", " ", "<", "b", "a", "c", "k", "l", "i", "s", "t", ":", "d", "b", ">">>

\* line 93
EndMarker == <<"#", " ", "<", "/", "b", "a", "c", "k", "l", "i", "s", "t", ":", "d", "b", ">">>

\* the first 0-based offset >= from at which pat occurs in s, or -1
indexOfFrom(s, pat, from) ==
    LET hits == {i \in from..(Len(s) - Len(pat)) : OccursAt(s, pat, i)}
    IN  IF hits = {} THEN -1
        ELSE CHOOSE i \in hits : \A j \in hits : i <= j

\* String.prototype.includes
includes(s, pat) == indexOfFrom(s, pat, 0) # -1

\* Array.prototype.join('\n')
RECURSIVE joinLines(_)
joinLines(lines) ==
    IF lines = <<>> THEN <<>>
    ELSE IF Len(lines) = 1 THEN lines[1]
    ELSE lines[1] \o NewLine \o joinLines(Tail(lines))

WhiteSpace == {" ", "\n", "\t", "\r"}

RECURSIVE trimStart(_)
trimStart(s) ==
    IF s # <<>> /\ Head(s) \in WhiteSpace THEN trimStart(Tail(s)) ELSE s

RECURSIVE trimEnd(_)
trimEnd(s) ==
    IF s # <<>> /\ s[Len(s)] \in WhiteSpace
    THEN trimEnd(SubSeq(s, 1, Len(s) - 1))
    ELSE s

\* String.prototype.trim
trim(s) == trimEnd(trimStart(s))

\* lines 95-104
dbProps(artifactId) ==
    joinLines(<<StartMarker,
                <<"s", "p", "r", "i", "n", "g", ".", "d", "a", "t", "a", "s", "o", "u", "r", "c", "e", ".", "u", "r", "l", "=", "j", "d", "b", "c", ":", "p", "o", "s", "t", "g", "r", "e", "s", "q", "l", ":", "/", "/", "l", "o", "c", "a", "l", "h", "o", "s", "t", ":", "5", "4", "3", "2", "/">> \o artifactId,
                <<"s", "p", "r", "i", "n", "g", ".", "d", "a", "t", "a", "s", "o", "u", "r", "c", "e", ".", "u", "s", "e", "r", "n", "a", "m", "e", "=", "p", "o", "s", "t", "g", "r", "e", "s">>,
                <<"s", "p", "r", "i", "n", "g", ".", "d", "a", "t", "a", "s", "o", "u", "r", "c", "e", ".", "p", "a", "s", "s", "w", "o", "r", "d", "=", "p", "a", "s", "s", "w", "o", "r", "d">>,
                <<"s", "p", "r", "i", "n", "g", ".", "j", "p", "a", ".", "h", "i", "b", "e", "r", "n", "a", "t", "e", ".", "d", "d", "l", "-", "a", "u", "t", "o", "=", "u", "p", "d", "a", "t", "e">>,
                <<"s", "p", "r", "i", "n", "g", ".", "j", "p", "a", ".", "s", "h", "o", "w", "-", "s", "q", "l", "=", "t", "r", "u", "e">>,
                EndMarker,
                <<>> >>)

\* line 110: current.replace(new RegExp(start + '[\s\S]*?' + end), by):
\* the leftmost start marker and the nearest end marker after it
replaceBlock(current, by) ==
    LET i == indexOfFrom(current, StartMarker, 0)
        j == IF i = -1 THEN -1
             ELSE indexOfFrom(current, EndMarker, i + Len(StartMarker))
    IN  IF j = -1 THEN current
        ELSE SubSeq(current, 1, i) \o by \o slice(current, j + Len(EndMarker))

\* lines 88-115: the file after the call
upsertApplicationProperties(file, artifactId) ==
    IF IsNull(file) THEN file
    ELSE LET current == file[1]
         IN  IF includes(current, StartMarker) /\ includes(current, EndMarker)
             THEN Some(replaceBlock(current, trim(dbProps(artifactId))))
             ELSE Some(current \o NewLine \o NewLine \o dbProps(artifactId))

\* line 120: artifact ids sanitizeArtifactId returns
ArtifactIds == {<<"b", "a", "c", "k", "e", "n", "d">>, <<"s", "h", "o", "p">>, <<"m", "y", "-", "a", "p", "i">>}

\* application.properties before the first invocation
PropsEmpty == <<>>

PropsPort == <<"s", "e", "r", "v", "e", "r", ".", "p", "o", "r", "t", "=", "8", "0", "8", "0">> \o NewLine

PropsWithBlock ==
    <<"a", "=", "1">> \o NewLine \o StartMarker \o NewLine \o <<"o", "l", "d", "=", "1">> \o NewLine
        \o EndMarker \o NewLine \o <<"b", "=", "2">> \o NewLine

PropsStartOnly ==
    <<"a", "=", "1">> \o NewLine \o StartMarker \o NewLine \o <<"o", "l", "d", "=", "1">> \o NewLine

PropsEndBeforeStart ==
    EndMarker \o NewLine \o <<"a", "=", "1">> \o NewLine \o StartMarker \o NewLine

PropsFiles ==
    {PropsEmpty, PropsPort, PropsWithBlock, PropsStartOnly, PropsEndBeforeStart}

InitProperties ==
    /\ AnalyzerNotRunning
    /\ CliIdle
    /\ WatchIdle
    /\ TemplateIdle
    /\ propsFile \in {Null} \cup {Some(f) : f \in PropsFiles}
    /\ original = propsFile
    /\ upserts = <<>>

\* line 215: one invocation
Upsert(artifactId) ==
    /\ Len(upserts) < MaxUpserts
    /\ propsFile' = upsertApplicationProperties(propsFile, artifactId)
    /\ upserts' = Append(upserts, [artifactId |-> artifactId, after |-> propsFile'])
    /\ UNCHANGED original
    /\ UNCHANGED <<analyzerVars, cliVars, watchVars, tplVars>>

NextProperties == \E artifactId \in ArtifactIds : Upsert(artifactId)

SpecProperties == InitProperties /\ [][NextProperties]_vars

\* What the claim about application.properties speaks of
RECURSIVE CountFrom(_, _, _)
CountFrom(s, pat, from) ==
    LET i == indexOfFrom(s, pat, from)
    IN  IF i = -1 THEN 0 ELSE 1 + CountFrom(s, pat, i + Len(pat))

HasOneBlock(s) ==
    /\ CountFrom(s, StartMarker, 0) = 1
    /\ CountFrom(s, EndMarker, 0) = 1
    /\ indexOfFrom(s, StartMarker, 0) < indexOfFrom(s, EndMarker, 0)

\* the text before the start marker and after the end marker
OutsideBlock(s) ==
    SubSeq(s, 1, indexOfFrom(s, StartMarker, 0))
        \o slice(s, indexOfFrom(s, EndMarker, 0) + Len(EndMarker))

WithoutLineBreaks(s) == SelectSeq(s, LAMBDA c : c # "\n")

\* the original text that is not a block
OriginalOutside ==
    IF HasOneBlock(original[1]) THEN OutsideBlock(original[1]) ELSE original[1]

\* C29: after one or more invocations on an existing application.properties
\* the file has exactly one backlist:db block between its markers, the text
\* outside the block is the original's (line breaks aside), and an invocation
\* after the first leaves the content as it was; when the file does not
\* exist nothing is created.
C29_UpsertIdempotent ==
    /\ IsNull(original) => IsNull(propsFile)
    /\ (~IsNull(original) /\ upserts # <<>>) =>
          /\ ~IsNull(propsFile)
          /\ HasOneBlock(propsFile[1])
          /\ WithoutLineBreaks(OutsideBlock(propsFile[1]))
                = WithoutLineBreaks(OriginalOutside)
    /\ \A n \in 1..(Len(upserts) - 1) :
          upserts[n + 1].artifactId = upserts[n].artifactId
              => upserts[n + 1].after = upserts[n].after

----------------------------------------------------------------------------
(* C30: every descriptor's path and route begin with /api/: what precedes  *)
(* the first /api/ of the resolved URL (scheme and host, or a leading      *)
(* interpolated base URL) is dropped before the key is built, so call      *)
(* sites of one method whose URLs differ in that prefix only are folded    *)
(* into one descriptor.                                                    *)

ApiSegment == <<"/", "a", "p", "i", "/">>

BeginsWithApi(s) == OccursAt(s, ApiSegment, 0)

\* the resolved URL of the i-th visit, an admitted one, from its first /api/ on
FromFirstApi(i) ==
    LET url == visited[i].locals.urlValue[1]
    IN  slice(url, indexOf(url, ApiSegment))

\* the descriptors of the map with the pair of the i-th visit
DescriptorsOfPair(i) ==
    {k \in 1..Len(endpoints) : PairOf(endpoints[k].value) = PairAt(i)}

PrefixIsDropped ==
    \A k \in 1..Len(endpoints) :
        /\ BeginsWithApi(endpoints[k].value.path)
        /\ BeginsWithApi(endpoints[k].value.route)

PrefixOnlyDifferenceCollapses ==
    (visited # <<>> /\ AdmittedAt(Len(visited))) =>
        /\ DescriptorAt(Len(visited)).path = FromFirstApi(Len(visited))
        /\ \A i \in AdmittedIndexes :
              ( /\ visited[i].locals.method = LastVisited.locals.method
                /\ FromFirstApi(i) = FromFirstApi(Len(visited)) )
              => /\ PairAt(i) = PairAt(Len(visited))
                 /\ Cardinality(DescriptorsOfPair(i)) = 1

C30_ApiPrefixDropped == PrefixIsDropped /\ PrefixOnlyDifferenceCollapses

\* fetch('/api/users'), fetch('https://x.io/api/users') and
\* axios.get(`${BASE}/api/users`) were visited and the map holds one
\* descriptor, of path /api/users
C30_Witness ==
    /\ Len(visited) = 3
    /\ {visited[i].node : i \in 1..3} = {CsFetchUsers, CsFetchUsersHost, CsGetUsersBase}
    /\ \A i \in 1..3 : AdmittedAt(i)
    /\ visited[1].locals.urlValue # visited[2].locals.urlValue
    /\ Len(endpoints) = 1
    /\ endpoints[1].value.path = <<"/", "a", "p", "i", "/", "u", "s", "e", "r", "s">>
    /\ endpoints[1].value.route = <<"/", "a", "p", "i", "/", "u", "s", "e", "r", "s">>
====
